---- MODULE Spec2Model ----
(***************************************************************************)
(* Verification model of nanotron's llama3 ring attention                  *)
(* (src/src/nanotron/nn/llama3_ring_attention.py).                         *)
(*                                                                         *)
(* The module holds several specifications over one set of variables:      *)
(*   SpecPrep  llama3_flash_attn_prepare_cu_seqlens on bounded inputs      *)
(*   SpecApi   RingComm and AllGatherComm under arbitrary call sequences   *)
(*   SpecRing  the rotating point-to-point ring built on RingComm          *)
(*   SpecEng   llama3_flash_attn_varlen_forward / _backward on all ranks   *)
(*   SpecLse   flatten_varlen_lse and unflatten_varlen_lse                 *)
(*   SpecMerge update_out_and_lse over a sequence of blocks                *)
(* A specification leaves the variables of the other parts at their idle   *)
(* values.                                                                 *)
(***************************************************************************)
EXTENDS Integers, Sequences, FiniteSets, Bags, TLC

VARIABLES
    \* ---- llama3_flash_attn_prepare_cu_seqlens ----
    cu_seqlens,     \* the global boundary sequence (a tensor of offsets)
    causal,         \* the causal flag
    rank,           \* this rank
    world_size,     \* the size of the ring process group
    prepPc,         \* "call" before the call, "done" after it
    ret,            \* what the call produced (see PrepFailed)
    \* ---- one RingComm and one AllGatherComm under free call sequences ----
    rc,             \* the RingComm object
    rcLast,         \* the last RingComm method called ("" before any)
    rcRaised,       \* the error that call raised ("" when it returned)
    rcIssued,       \* send_recv calls made so far
    rcBatches,      \* the lists of operations given to batch_isend_irecv
    ag,             \* the AllGatherComm object
    agLast,         \* the last AllGatherComm method called
    agRaised,       \* the error that call raised ("" when it returned)
    agIssued,       \* all_gather calls made so far
    \* ---- the rotating point-to-point ring, one RingComm per rank ----
    ringW,          \* world size of the ring's process group
    ringBase,       \* global rank of the group's rank 0
    comm,           \* comm[r]: rank r's RingComm
    cur,            \* cur[r]: the K/V shard rank r holds now
    nxt,            \* nxt[r]: rank r's receive buffers next_k, next_v
    seen,           \* seen[r]: the shards rank r has computed on, in order
    hop,            \* hop[r]: hops rank r has completed
    rpc,            \* rpc[r]: "issue", "compute", "wait" or "done"
    completed,      \* completed[r]: requests of rank r's batch that completed
    sendq,          \* sendq[<<s, d>>]: payloads sent by s to d, unmatched
    recvq,          \* recvq[<<s, d>>]: buffers d posted to receive from s
    \* ---- llama3_flash_attn_varlen_forward / _backward on every rank ----
    engW,           \* world size of the process group
    engMode,        \* "forward" or "backward"
    nheads_k,       \* KV heads (k.shape[1])
    heads_k_stride, \* KV heads per window
    nheads,         \* query heads (q.shape[1])
    engCu,          \* the global layout the rank shards were prepared from
    engCausal,      \* the causal flag
    alibi_slopes,   \* "None", or "slopes" when a bias is supplied
    epc,            \* epc[r]: where rank r is in the function
    ei,             \* ei[r]: the loop variable i
    active,         \* active[r]: the physical buffer kv_buffer names (0 or 1)
    kvbuf,          \* kvbuf[r][b]: contents of physical KV buffer b
    ecomm,          \* ecomm[r]: rank r's AllGatherComm
    colls,          \* colls[r]: the collectives rank r has called, in order
    waited,         \* waited[r]: windows whose gathers rank r has waited on
    hwaits,         \* hwaits[r]: the gathers whose handle.wait() rank r called
    reads,          \* reads[r]: what each kernel call of rank r was given
    out_list,       \* out_list[r]: forward, the recorded window outputs
    eng_out,        \* eng_out[r]: the out tensor forward returns, backward is given
    eng_lse,        \* eng_lse[r]: likewise the lse (softmax_lse) tensor
    lse_dims,       \* number of dimensions of the kernel's lse: 2 or 3
    dkv_buffer,     \* dkv_buffer[r][part][<<token, j>>]: window gradients
    kv_contiguous_buffer, \* kv_contiguous_buffer[r][part][<<t, j>>]
    dkdv,           \* dkdv[r][part][<<t, h>>]: the returned dk and dv
    dkdv_writes,    \* dkdv_writes[r]: bag of <<part, head, window>>, one per
                    \* write of a head of dk (dv) by that window
    \* ---- flatten_varlen_lse / unflatten_varlen_lse ----
    lseImpl,        \* "torch" (lines 723-740) or "triton" (lines 548-650)
    lseCu,          \* cu_seqlens of the batch
    lseMax,         \* max_seqlen
    lseIn,          \* the padded lse, shape (batch, nheads, max_seqlen)
    lseFlat,        \* what flatten_varlen_lse returned
    lseArg,         \* the tensor handed to unflatten_varlen_lse
    lseOut,         \* what unflatten_varlen_lse returned
    lseDirect,      \* unflatten was handed flatten's result as it is
    lsePc,          \* "start", "flat", "relaid", "done" or "raised"
    \* ---- update_out_and_lse on one accumulator ----
    mOut,           \* the accumulator out (NoTensor: None)
    mLse,           \* the accumulator lse (NoTensor: None)
    mCalls,         \* calls made so far
    mRaised,        \* the error the last call raised ("" when it returned)
    mSlice,         \* slice_ of the last call (NoSlice: None)
    mBlockOut,      \* block_out of the last call, if made with out = None
    mBlockLse,      \* block_lse of the last call, if made with out = None
    mWasNone,       \* the last call was made with out = None
    merged          \* merged[row]: what the calls merged into the row

prepVars == <<cu_seqlens, causal, rank, world_size, prepPc, ret>>

apiVars == <<rc, rcLast, rcRaised, rcIssued, rcBatches, ag, agLast, agRaised, agIssued>>

ringVars == <<ringW, ringBase, comm, cur, nxt, seen, hop, rpc, completed, sendq, recvq>>

engVars == <<engW, engMode, nheads_k, heads_k_stride, nheads, engCu, engCausal, alibi_slopes,
             lse_dims, epc, ei, active, kvbuf, ecomm, colls, waited, hwaits, reads, out_list,
             eng_out, eng_lse,
             dkv_buffer, kv_contiguous_buffer, dkdv, dkdv_writes>>

lseVars == <<lseImpl, lseCu, lseMax, lseIn, lseFlat, lseArg, lseOut, lseDirect, lsePc>>

mrgVars == <<mOut, mLse, mCalls, mRaised, mSlice, mBlockOut, mBlockLse, mWasNone, merged>>

vars == <<prepVars, apiVars, ringVars, engVars, lseVars, mrgVars>>

(***************************************************************************)
(* Bounds of the model.                                                    *)
(***************************************************************************)
MaxTotal == 16      \* largest total_length of a layout
MaxSeqs == 3        \* largest number of packed sequences
MaxWorld == 3       \* largest world_size
MaxIssue == 3       \* most send_recv (and all_gather) calls on one object
MaxEngWorld == 2    \* largest world_size the engine runs on
MaxHeadsK == 2      \* largest number of KV heads
TokensPerRank == 1  \* total_k: tokens of a rank's shard in the engine runs
MaxLseSeqs == 2     \* most sequences of a batch whose lse is converted
MaxLseLen == 2      \* longest sequence of such a batch
MaxLseHeads == 2    \* most heads of the lse
MaxMergeCalls == 3  \* most update_out_and_lse calls on one accumulator

(***************************************************************************)
(* Tensor helpers (0-based indexing as in the source).                     *)
(***************************************************************************)
At(s, i) == s[i + 1]

Last(s) == s[Len(s)]

SetMin(S) == CHOOSE x \in S : \A y \in S : x <= y

SetMax(S) == CHOOSE x \in S : \A y \in S : x >= y

\* torch.searchsorted(sorted, v) with right=False: the first index whose
\* entry is >= v, len(sorted) when there is none.
searchsorted(s, v) ==
    LET idx == {i \in 0..(Len(s) - 1) : At(s, i) >= v}
    IN  IF idx = {} THEN Len(s) ELSE SetMin(idx)

\* s[a : b + 1] for 0 <= a; the stop is clamped to len(s) as Python does.
SliceIncl(s, a, b) ==
    LET stop == IF b + 1 > Len(s) THEN Len(s) ELSE b + 1
    IN  IF stop <= a THEN << >> ELSE [j \in 1..(stop - a) |-> At(s, a + j - 1)]

\* t -= c on every entry
Shift(s, c) == [j \in 1..Len(s) |-> s[j] - c]

\* t[0] = v
SetFirst(s, v) == [s EXCEPT ![1] = v]

\* t[-1] = v
SetLast(s, v) == [s EXCEPT ![Len(s)] = v]

\* (t[1:] - t[:-1]) as a set of values; empty for a one-entry tensor
Diffs(s) == {s[j + 1] - s[j] : j \in 1..(Len(s) - 1)}

(***************************************************************************)
(* RingComm (lines 744-793).  An object is a record: rank, world_size,     *)
(* send_rank, recv_rank, ops (the list _ops) and reqs (_reqs: None, or the *)
(* requests of the committed batch, one per operation submitted).          *)
(***************************************************************************)
\* _reqs: None, or the list of requests batch_isend_irecv returned
None == [some |-> FALSE, list |-> << >>]

Requests(l) == [some |-> TRUE, list |-> l]

\* dist.get_global_rank(group, r): the group's ranks are the global ranks
\* base, base+1, ... (base = 0 for the default group).
get_global_rank(base, r) == base + r

\* line 752 (and 756)
send_rank_stride2(r, ws, base) == get_global_rank(base, (r + 2) % ws)

send_rank(r, ws, base) == get_global_rank(base, (r + 1) % ws)

\* line 753 (and 757)
recv_rank(r, ws, base) == get_global_rank(base, (r - 1) % ws)

\* lines 745-757
RingComm_init(r, ws, base) ==
    [rank |-> r, world_size |-> ws,
     send_rank |-> send_rank(r, ws, base),
     recv_rank |-> recv_rank(r, ws, base),
     ops |-> << >>, reqs |-> None]

\* dist.P2POp(op, tensor, peer)
P2POp(op, tensor, peer) == [op |-> op, tensor |-> tensor, peer |-> peer]

\* What a method call gives: the object after it and the error it raised.
Returns(c) == [obj |-> c, raised |-> ""]

Raises(c, err) == [obj |-> c, raised |-> err]

\* lines 759-769: enqueue a send of to_send and a receive into res
RingComm_send_recv(c, to_send, res) ==
    [c EXCEPT !.ops = Append(Append(@, P2POp("isend", to_send, c.send_rank)),
                             P2POp("irecv", res, c.recv_rank))]

\* lines 771-774.  dist.batch_isend_irecv indexes p2p_op_list[0] and so
\* raises on an empty list, before _reqs is assigned.
RingComm_commit_unchecked(c) ==
    IF c.ops = << >> THEN Raises(c, "IndexError")
    ELSE Returns([c EXCEPT !.reqs = Requests(c.ops)])

RingComm_commit(c) ==
    IF c.reqs # None THEN Raises(c, "commit called twice")
    ELSE IF c.ops = << >> THEN Raises(c, "IndexError")
    ELSE Returns([c EXCEPT !.reqs = Requests(c.ops)])

\* lines 776-782
RingComm_wait_unchecked(c) ==
    Returns([c EXCEPT !.reqs = None, !.ops = << >>])

RingComm_wait(c) ==
    IF c.reqs = None THEN Raises(c, "wait called before commit")
    ELSE Returns([c EXCEPT !.reqs = None, !.ops = << >>])

\* lines 784-793: an error of commit leaves the four operations enqueued
RingComm_send_recv_kv(c, k, v, k_buffer, v_buffer) ==
    RingComm_commit(RingComm_send_recv(RingComm_send_recv(c, k, k_buffer), v, v_buffer))

(***************************************************************************)
(* AllGatherComm (lines 796-808): handles is the list of the handles of    *)
(* the gathers issued and not yet waited.                                  *)
(***************************************************************************)
AllGatherComm_init == [handles |-> << >>]

\* lines 801-803
AllGatherComm_all_gather(c, output_tensor, input_tensor) ==
    [c EXCEPT !.handles = Append(@, [out |-> output_tensor, inp |-> input_tensor])]

\* lines 805-808 without the reset of line 808
AllGatherComm_wait_keep(c) == Returns(c)

\* lines 805-808: waits for every handle (none: the loop body never runs)
\* and resets the list; it raises nothing
AllGatherComm_wait(c) == Returns([c EXCEPT !.handles = << >>])

(***************************************************************************)
(* SpecApi: a caller makes any sequence of calls on one RingComm and one   *)
(* AllGatherComm; every committed batch and every gather completes, so a   *)
(* wait that does not raise returns.                                       *)
(***************************************************************************)
ApiIdle ==
    /\ rc = RingComm_init(0, 1, 0)
    /\ rcLast = "idle" /\ rcRaised = "" /\ rcIssued = 0 /\ rcBatches = << >>
    /\ ag = AllGatherComm_init
    /\ agLast = "idle" /\ agRaised = "" /\ agIssued = 0

\* line 774: a commit that returns has handed the list _ops to
\* dist.batch_isend_irecv
Submitted(batches, res) ==
    IF res.raised = "" THEN Append(batches, res.obj.reqs.list) ELSE batches

ApiInit ==
    /\ rc = RingComm_init(0, 2, 0)
    /\ rcLast = "" /\ rcRaised = "" /\ rcIssued = 0 /\ rcBatches = << >>
    /\ ag = AllGatherComm_init
    /\ agLast = "" /\ agRaised = "" /\ agIssued = 0

\* the tensors of the n-th send_recv call
SendTensor(n) == <<"send", n>>

RecvTensor(n) == <<"recv", n>>

ApiSendRecv ==
    /\ rcIssued < MaxIssue
    /\ rc' = RingComm_send_recv(rc, SendTensor(rcIssued), RecvTensor(rcIssued))
    /\ rcLast' = "send_recv" /\ rcRaised' = ""
    /\ rcIssued' = rcIssued + 1
    /\ UNCHANGED <<rcBatches, ag, agLast, agRaised, agIssued>>

ApiCommit ==
    /\ rc' = RingComm_commit(rc).obj
    /\ rcRaised' = RingComm_commit(rc).raised
    /\ rcLast' = "commit"
    /\ rcBatches' = Submitted(rcBatches, RingComm_commit(rc))
    /\ UNCHANGED <<rcIssued, ag, agLast, agRaised, agIssued>>

ApiWait ==
    /\ rc' = RingComm_wait(rc).obj
    /\ rcRaised' = RingComm_wait(rc).raised
    /\ rcLast' = "wait"
    /\ UNCHANGED <<rcIssued, rcBatches, ag, agLast, agRaised, agIssued>>

ApiSendRecvKv ==
    /\ rcIssued + 2 <= MaxIssue
    /\ LET res == RingComm_send_recv_kv(rc, SendTensor(rcIssued), SendTensor(rcIssued + 1),
                                        RecvTensor(rcIssued), RecvTensor(rcIssued + 1))
       IN  /\ rc' = res.obj
           /\ rcRaised' = res.raised
           /\ rcBatches' = Submitted(rcBatches, res)
    /\ rcLast' = "send_recv_kv"
    /\ rcIssued' = rcIssued + 2
    /\ UNCHANGED <<ag, agLast, agRaised, agIssued>>

ApiAllGather ==
    /\ agIssued < MaxIssue
    /\ ag' = AllGatherComm_all_gather(ag, <<"out", agIssued>>, <<"in", agIssued>>)
    /\ agLast' = "all_gather" /\ agRaised' = ""
    /\ agIssued' = agIssued + 1
    /\ UNCHANGED <<rc, rcLast, rcRaised, rcIssued, rcBatches>>

ApiAgWait ==
    /\ ag' = AllGatherComm_wait(ag).obj
    /\ agRaised' = AllGatherComm_wait(ag).raised
    /\ agLast' = "wait"
    /\ UNCHANGED <<agIssued, rc, rcLast, rcRaised, rcIssued, rcBatches>>

(***************************************************************************)
(* llama3_flash_attn_prepare_cu_seqlens, line by line.                     *)
(***************************************************************************)
\* lines 32-33: include the sequence that straddles the rank's start
AdjustLeftNoDecrement(cu, left, start) == left

AdjustLeft(cu, left, start) ==
    IF At(cu, left) # start THEN left - 1 ELSE left

\* lines 38-41: the local query boundaries
QNoPinLast(cu, left, right, start, lpr) ==
    SetFirst(Shift(SliceIncl(cu, left, right), start), 0)

BuildQ(cu, left, right, start, lpr) ==
    SetLast(SetFirst(Shift(SliceIncl(cu, left, right), start), 0), lpr)

\* lines 44-52: the upper bound of the key slice
SliceRightAlwaysSeqEnd(cu, c, right, r, lpr) == At(cu, right)

SliceRightAlwaysCausal(cu, c, right, r, lpr) == (r + 1) * lpr

SliceRight(cu, c, right, r, lpr) ==
    IF c THEN (r + 1) * lpr ELSE At(cu, right)

\* lines 43-55 without the causal clamp of line 48
BuildKNoClamp(cu, c, left, right, r, lpr) ==
    Shift(SliceIncl(cu, left, right), At(cu, left))

\* lines 43-55: the local key boundaries
BuildK(cu, c, left, right, r, lpr) ==
    LET k0 == SliceIncl(cu, left, right)
        k1 == IF c THEN SetLast(k0, (r + 1) * lpr) ELSE k0
    IN  Shift(k1, At(cu, left))

\* What a call produces: status "ok" with the five returned values, or the
\* error that ended it ("assert": line 25; "max_empty": .max() of an empty
\* tensor at line 57, which torch raises).
PrepFailed(why) ==
    [status |-> why, cu_seqlens_q |-> << >>, cu_seqlens_k |-> << >>,
     max_seqlen_q |-> 0, max_seqlen_k |-> 0, slice_left |-> 0, slice_right |-> 0]

llama3_flash_attn_prepare_cu_seqlens(cu, c, r, ws) ==
    LET total_length == Last(cu)
        lpr == total_length \div ws
        left0 == searchsorted(cu, r * lpr)
        right == searchsorted(cu, (r + 1) * lpr)
        left == AdjustLeft(cu, left0, r * lpr)
        q == BuildQ(cu, left, right, r * lpr, lpr)
        k == BuildK(cu, c, left, right, r, lpr)
    IN  IF total_length % ws # 0 THEN PrepFailed("assert")
        ELSE IF Diffs(q) = {} THEN PrepFailed("max_empty")
        ELSE [status |-> "ok",
              cu_seqlens_q |-> q,
              cu_seqlens_k |-> k,
              max_seqlen_q |-> SetMax(Diffs(q)),
              max_seqlen_k |-> SetMax(Diffs(k)),
              slice_left |-> At(cu, left),
              slice_right |-> SliceRight(cu, c, right, r, lpr)]

(***************************************************************************)
(* The layouts the calls are made on: every non-decreasing boundary        *)
(* sequence starting at 0 with at most MaxSeqs sequences and a total of at *)
(* most MaxTotal.                                                          *)
(***************************************************************************)
RECURSIVE Layouts(_)
Layouts(n) ==
    IF n = 0 THEN {<<0>>}
    ELSE UNION {{Append(s, x) : x \in Last(s)..MaxTotal} : s \in Layouts(n - 1)}

AllLayouts == UNION {Layouts(n) : n \in 0..MaxSeqs}

PrepIdle ==
    /\ cu_seqlens = <<0>>
    /\ causal = FALSE
    /\ rank = 0
    /\ world_size = 1
    /\ prepPc = "idle"
    /\ ret = PrepFailed("none")

PrepInit ==
    /\ cu_seqlens \in AllLayouts
    /\ causal \in BOOLEAN
    /\ world_size \in 1..MaxWorld
    /\ rank \in 0..(world_size - 1)
    /\ prepPc = "call"
    /\ ret = PrepFailed("none")

Prepare ==
    /\ prepPc = "call"
    /\ ret' = llama3_flash_attn_prepare_cu_seqlens(cu_seqlens, causal, rank, world_size)
    /\ prepPc' = "done"
    /\ UNCHANGED <<cu_seqlens, causal, rank, world_size>>


(***************************************************************************)
(* The rotating ring: every rank runs                                      *)
(*     for step in range(world_size):                                      *)
(*         if step + 1 != world_size: next_k, next_v = comm.send_recv_kv(k, v) *)
(*         compute on (k, v)                                               *)
(*         if step + 1 != world_size: comm.wait(); k, v = next_k, next_v   *)
(* over its RingComm.  The transport matches the sends from s to d with    *)
(* the receives d posted from s, in order; a request completes when it is  *)
(* matched.                                                                *)
(***************************************************************************)
RingRanks == 0..(ringW - 1)

GlobalRanks == {get_global_rank(ringBase, r) : r \in RingRanks}

Shard(origin) == [k |-> <<"k", origin>>, v |-> <<"v", origin>>]

EmptyBuffers == [k |-> <<"empty">>, v |-> <<"empty">>]

RingIdle ==
    /\ ringW = 0 /\ ringBase = 0
    /\ comm = << >> /\ cur = << >> /\ nxt = << >> /\ seen = << >>
    /\ hop = << >> /\ rpc = << >> /\ completed = << >>
    /\ sendq = << >> /\ recvq = << >>

RingInit ==
    /\ ringW \in 1..MaxWorld
    /\ ringBase \in {0, 1}
    /\ comm = [r \in RingRanks |-> RingComm_init(r, ringW, ringBase)]
    /\ cur = [r \in RingRanks |-> Shard(r)]
    /\ nxt = [r \in RingRanks |-> EmptyBuffers]
    /\ seen = [r \in RingRanks |-> << >>]
    /\ hop = [r \in RingRanks |-> 0]
    /\ rpc = [r \in RingRanks |-> "issue"]
    /\ completed = [r \in RingRanks |-> 0]
    /\ sendq = [e \in GlobalRanks \X GlobalRanks |-> << >>]
    /\ recvq = [e \in GlobalRanks \X GlobalRanks |-> << >>]

\* dist.batch_isend_irecv(ops) of the rank with global rank g: every isend
\* joins the queue of sends to its peer, every irecv the queue of receives
\* from its peer, in the order of the list.
RECURSIVE PostSends(_, _, _)
PostSends(q, g, ops) ==
    IF ops = << >> THEN q
    ELSE LET o == Head(ops)
             q1 == IF o.op = "isend"
                   THEN [q EXCEPT ![<<g, o.peer>>] = Append(@, o.tensor)]
                   ELSE q
         IN  PostSends(q1, g, Tail(ops))

RECURSIVE PostRecvs(_, _, _)
PostRecvs(q, g, ops) ==
    IF ops = << >> THEN q
    ELSE LET o == Head(ops)
             q1 == IF o.op = "irecv"
                   THEN [q EXCEPT ![<<o.peer, g>>] = Append(@, o.tensor)]
                   ELSE q
         IN  PostRecvs(q1, g, Tail(ops))

\* step of the loop: send_recv_kv(k, v) unless this is the last step
RingIssue(r) ==
    /\ rpc[r] = "issue"
    /\ IF hop[r] + 1 # ringW
       THEN LET res == RingComm_send_recv_kv(comm[r], cur[r].k, cur[r].v, "k", "v")
                g == get_global_rank(ringBase, r)
            IN  /\ res.raised = ""
                /\ comm' = [comm EXCEPT ![r] = res.obj]
                /\ sendq' = PostSends(sendq, g, res.obj.reqs.list)
                /\ recvq' = PostRecvs(recvq, g, res.obj.reqs.list)
                /\ nxt' = [nxt EXCEPT ![r] = EmptyBuffers]
       ELSE UNCHANGED <<comm, sendq, recvq, nxt>>
    /\ rpc' = [rpc EXCEPT ![r] = "compute"]
    /\ UNCHANGED <<ringW, ringBase, cur, seen, hop, completed>>

\* the rank computes on the shard it holds
RingCompute(r) ==
    /\ rpc[r] = "compute"
    /\ seen' = [seen EXCEPT ![r] = Append(@, cur[r])]
    /\ rpc' = [rpc EXCEPT ![r] = IF hop[r] + 1 # ringW THEN "wait" ELSE "done"]
    /\ UNCHANGED <<ringW, ringBase, comm, cur, nxt, hop, completed, sendq, recvq>>

\* the transport matches the oldest send from s to d with the oldest receive
\* d posted from s: the payload lands in d's buffer, both requests complete
RingDeliver(s, d) ==
    /\ sendq[<<s, d>>] # << >>
    /\ recvq[<<s, d>>] # << >>
    /\ LET rs == s - ringBase
           rd == d - ringBase
           buf == Head(recvq[<<s, d>>])
       IN  /\ nxt' = [nxt EXCEPT ![rd] =
                         IF buf = "k" THEN [@ EXCEPT !.k = Head(sendq[<<s, d>>])]
                         ELSE [@ EXCEPT !.v = Head(sendq[<<s, d>>])]]
           /\ completed' = [x \in RingRanks |->
                               completed[x] + (IF x = rs THEN 1 ELSE 0)
                                            + (IF x = rd THEN 1 ELSE 0)]
    /\ sendq' = [sendq EXCEPT ![<<s, d>>] = Tail(@)]
    /\ recvq' = [recvq EXCEPT ![<<s, d>>] = Tail(@)]
    /\ UNCHANGED <<ringW, ringBase, comm, cur, seen, hop, rpc>>

\* comm.wait() returns once every request of the batch has completed; then
\* k, v = next_k, next_v
RingWait(r) ==
    /\ rpc[r] = "wait"
    /\ comm[r].reqs.some => completed[r] = Len(comm[r].reqs.list)
    /\ LET res == RingComm_wait(comm[r])
       IN  /\ res.raised = ""
           /\ comm' = [comm EXCEPT ![r] = res.obj]
    /\ completed' = [completed EXCEPT ![r] = 0]
    /\ cur' = [cur EXCEPT ![r] = nxt[r]]
    /\ hop' = [hop EXCEPT ![r] = @ + 1]
    /\ rpc' = [rpc EXCEPT ![r] = "issue"]
    /\ UNCHANGED <<ringW, ringBase, nxt, seen, sendq, recvq>>

RingNext ==
    \/ \E r \in RingRanks : RingIssue(r)
    \/ \E r \in RingRanks : RingCompute(r)
    \/ \E r \in RingRanks : RingWait(r)
    \/ \E s \in GlobalRanks, d \in GlobalRanks : RingDeliver(s, d)

(***************************************************************************)
(* Strided tensors.  A tensor is its shape, its strides and the memory it  *)
(* views; element idx (0-based per dimension) is at address                *)
(* sum(idx[d] * stride[d]).  torch.empty leaves memory holding whatever    *)
(* was there: one value of Uninit, which may or may not be zero.           *)
(***************************************************************************)
RECURSIVE Prod(_)
Prod(s) == IF s = << >> THEN 1 ELSE Head(s) * Prod(Tail(s))

RECURSIVE Dot(_, _)
Dot(a, b) == IF a = << >> THEN 0 ELSE Head(a) * Head(b) + Dot(Tail(a), Tail(b))

Min2(a, b) == IF a <= b THEN a ELSE b

Max2(a, b) == IF a >= b THEN a ELSE b

\* triton.cdiv
cdiv(a, b) == (a + b - 1) \div b

\* strides of a contiguous tensor of this shape
contiguous_stride(shape) ==
    [d \in 1..Len(shape) |-> Prod(SubSeq(shape, d + 1, Len(shape)))]

\* the index of the n-th element of a contiguous tensor
Unravel(n, shape) ==
    [d \in 1..Len(shape) |-> (n \div contiguous_stride(shape)[d]) % shape[d]]

\* the indices of a tensor of this shape
Indices(shape) == {Unravel(n, shape) : n \in 0..(Prod(shape) - 1)}

\* a fresh contiguous tensor holding f[idx] at every index
Tensor(shape, f) ==
    [shape |-> shape, stride |-> contiguous_stride(shape),
     mem |-> [a \in 1..Prod(shape) |-> f[Unravel(a - 1, shape)]]]

NoTensor == [shape |-> << >>, stride |-> << >>, mem |-> << >>]

HasIndex(t, idx) ==
    /\ Len(idx) = Len(t.shape)
    /\ \A d \in 1..Len(idx) : idx[d] >= 0 /\ idx[d] < t.shape[d]

Elem(t, idx) == t.mem[1 + Dot(idx, t.stride)]

\* the values uninitialised memory may hold: zero, or something else
Uninit == {0, -1}

\* torch.empty(shape)
empty(shape, fill) == Tensor(shape, [idx \in Indices(shape) |-> fill])

\* t.transpose(-2, -1): a view
transpose_last2(t) ==
    LET n == Len(t.shape)
        sw(s) == [d \in 1..n |-> IF d = n - 1 THEN s[n] ELSE IF d = n THEN s[n - 1] ELSE s[d]]
    IN [shape |-> sw(t.shape), stride |-> sw(t.stride), mem |-> t.mem]

\* t.unsqueeze(dim=-1): a view
unsqueeze_last(t) ==
    [shape |-> t.shape \o <<1>>, stride |-> t.stride \o <<1>>, mem |-> t.mem]

\* torch.cat(ts, dim): d is the position of the dimension, from 1
RECURSIVE CatOffset(_, _, _)
CatOffset(ts, d, n) ==
    IF n = 1 THEN 0 ELSE CatOffset(ts, d, n - 1) + ts[n - 1].shape[d]

cat(ts, d) ==
    LET shape == [ts[1].shape EXCEPT ![d] = CatOffset(ts, d, Len(ts) + 1)]
        piece(i) == CHOOSE n \in 1..Len(ts) :
                        CatOffset(ts, d, n) <= i /\ i < CatOffset(ts, d, n + 1)
    IN  Tensor(shape,
               [idx \in Indices(shape) |->
                   Elem(ts[piece(idx[d])],
                        [idx EXCEPT ![d] = @ - CatOffset(ts, d, piece(idx[d]))])])

\* t[..., lo:hi, ...] on dimension d (from 1): a slice stops at the
\* dimension's end
SliceDim(t, d, lo, hi) ==
    LET l == Min2(lo, t.shape[d])
        h == Max2(Min2(hi, t.shape[d]), l)
        shape == [t.shape EXCEPT ![d] = h - l]
    IN  Tensor(shape, [idx \in Indices(shape) |-> Elem(t, [idx EXCEPT ![d] = @ + l])])

(***************************************************************************)
(* llama3_flash_attn_varlen_forward (lines 63-158) and _backward (lines    *)
(* 161-299), run by every rank of the group on the same arguments.         *)
(*                                                                         *)
(* A collective completes once every rank has called it.  An all_gather is *)
(* asynchronous: from its issue until the wait on its handle returns, its  *)
(* output buffer is being written and holds no defined data ("inflight").  *)
(* reduce_scatter_tensor blocks: the ranks that called it return together, *)
(* each with the sum over the ranks of its own chunk of their inputs.      *)
(***************************************************************************)
EngRanks == 0..(engW - 1)

Parts == {"k", "v"}

EngTotal == engW * TokensPerRank

EngTokens == 0..(EngTotal - 1)

LocalTokens == 0..(TokensPerRank - 1)

\* the layouts of the engine runs: one sequence over all tokens, or a first
\* sequence of one token followed by one over the rest
EngLayouts(total) ==
    {<<0, total>>} \cup (IF total > 1 THEN {<<0, 1, total>>} ELSE {})

\* what llama3_flash_attn_prepare_cu_seqlens returns for every run of the
\* engine: per world size, layout, causal flag and rank
ShardTable ==
    [w \in 1..MaxEngWorld |->
        [cu \in EngLayouts(w * TokensPerRank) |->
            [c \in BOOLEAN |->
                [r \in 0..(w - 1) |->
                    llama3_flash_attn_prepare_cu_seqlens(cu, c, r, w)]]]]

\* the rank's shard description, as prepared by the caller
RankShard(r) == ShardTable[engW][engCu][engCausal][r]

\* the rows that [local_k_slice] selects from a world-sized buffer
local_k_slice(r) ==
    {t \in EngTokens : RankShard(r).slice_left <= t /\ t < RankShard(r).slice_right}

\* contents of a KV buffer half: torch.empty, an unfinished gather, or the
\* gathered K (V) heads of a window from every rank
Garbage == [st |-> "garbage", part |-> "", win |-> -1]

Inflight(part, win) == [st |-> "inflight", part |-> part, win |-> win]

Gathered(part, win) == [st |-> "data", part |-> part, win |-> win]

\* gradient values are sums (bags) of the kernel's contributions
\* <<rank, part, KV head, global token>>; torch.empty holds garbage
GarbageGrad == SetToBag({<<-1, "garbage", -1, -1>>})

ZeroGrad == EmptyBag

Contribution(r, part, h, t) == SetToBag({<<r, part, h, t>>})

\* lines 117, 221-223: the query heads of the window that starts at KV head i
q_slice(i) ==
    [lo |-> (i * nheads) \div nheads_k,
     hi |-> ((i + heads_k_stride) * nheads) \div nheads_k]

\* lines 101-102, 114-115, 215-216, 242-243: gathers go to kv_buffer_copy
GatherDstActive(act) == act

GatherDst(act) == 1 - act

\* lines 106, 234: kv_buffer, kv_buffer_copy = kv_buffer_copy, kv_buffer
Swap(act) == 1 - act

\* the position of a collective in the rank's sequence of collectives
CollIndex(r, c) == SetMin({n \in 1..Len(colls[r]) : colls[r][n] = c})

\* a collective completes when every rank has called it, in the same place
\* of its sequence of collectives
Complete(r, c) ==
    LET n == CollIndex(r, c)
    IN  \A s \in EngRanks : Len(colls[s]) >= n /\ colls[s][n] = c

\* lines 806-807: handle.wait() returns when the handle's gather is complete
handle_wait_nonblocking(r, h) == TRUE

handle_wait(r, h) == Complete(r, <<"all_gather", h.inp[1], h.inp[2]>>)

Handles(r) == {ecomm[r].handles[n] : n \in 1..Len(ecomm[r].handles)}

\* the two all_gather calls of a window, odd ranks calling V before K
IssueGathersRankOrder(r, dst, win) ==
    /\ ecomm' = [ecomm EXCEPT ![r] =
                    AllGatherComm_all_gather(
                        AllGatherComm_all_gather(@, <<dst, "k">>, <<"k", win>>),
                        <<dst, "v">>, <<"v", win>>)]
    /\ kvbuf' = [kvbuf EXCEPT ![r][dst] =
                    [k |-> Inflight("k", win), v |-> Inflight("v", win)]]
    /\ colls' = [colls EXCEPT ![r] =
                    @ \o (IF r % 2 = 0
                          THEN << <<"all_gather", "k", win>>, <<"all_gather", "v", win>> >>
                          ELSE << <<"all_gather", "v", win>>, <<"all_gather", "k", win>> >>)]

\* the two all_gather calls of a window (K, then V) into physical buffer dst
IssueGathers(r, dst, win) ==
    /\ ecomm' = [ecomm EXCEPT ![r] =
                    AllGatherComm_all_gather(
                        AllGatherComm_all_gather(@, <<dst, "k">>, <<"k", win>>),
                        <<dst, "v">>, <<"v", win>>)]
    /\ kvbuf' = [kvbuf EXCEPT ![r][dst] =
                    [k |-> Inflight("k", win), v |-> Inflight("v", win)]]
    /\ colls' = [colls EXCEPT ![r] =
                    @ \o << <<"all_gather", "k", win>>, <<"all_gather", "v", win>> >>]

\* line 327 (assert alibi_slopes is None) passes without looking
alibi_unchecked(slopes) == TRUE

\* line 327: assert alibi_slopes is None
alibi_is_None(slopes) == slopes = "None"

\* Llama3FlashAttnVarlenFunc.forward (lines 324-347) asserts and calls the
\* forward engine; Llama3FlashAttnVarlenFunc.backward (lines 367-386) calls
\* the backward engine with what forward saved in ctx
EngCall(r) ==
    /\ epc[r] = "call"
    /\ epc' = [epc EXCEPT ![r] =
                  IF engMode = "forward" /\ ~alibi_is_None(alibi_slopes)
                  THEN "raised" ELSE "start"]
    /\ UNCHANGED <<engW, engMode, nheads_k, heads_k_stride, nheads, engCu, engCausal, alibi_slopes, lse_dims,
                   ei, active, kvbuf, ecomm, colls, waited, hwaits, reads, out_list, eng_out, eng_lse,
                   dkv_buffer, kv_contiguous_buffer, dkdv, dkdv_writes>>

\* lines 86, 184: assert nheads_k % heads_k_stride == 0
divisible(nk, stride) == nk % stride = 0

\* lines 84-102 (182-216): the assertion, the buffers, the first gathers
EngStart(r) ==
    /\ epc[r] = "start"
    /\ IF ~divisible(nheads_k, heads_k_stride)
       THEN /\ epc' = [epc EXCEPT ![r] = "raised"]
            /\ UNCHANGED <<ecomm, kvbuf, colls>>
       ELSE /\ IssueGathers(r, GatherDst(active[r]), 0)
            /\ epc' = [epc EXCEPT ![r] = IF engMode = "forward" THEN "wait" ELSE "zero"]
    /\ UNCHANGED <<engW, engMode, nheads_k, heads_k_stride, nheads, engCu, engCausal, alibi_slopes, lse_dims,
                   ei, active, waited, hwaits, reads, out_list, eng_out, eng_lse, dkv_buffer,
                   kv_contiguous_buffer, dkdv, dkdv_writes>>

\* line 219: dkv_buffer.zero_()
ZeroSkipped(buf) == buf

\* line 219 zeroing dkv_buffer[0] only
ZeroKOnly(buf) ==
    [part \in Parts |->
        [c \in DOMAIN buf[part] |-> IF part = "k" THEN ZeroGrad ELSE buf[part][c]]]

Zero(buf) == [part \in Parts |-> [c \in DOMAIN buf[part] |-> ZeroGrad]]

\* lines 219-231
EngZero(r) ==
    /\ epc[r] = "zero"
    /\ dkv_buffer' = [dkv_buffer EXCEPT ![r] = Zero(@)]
    /\ epc' = [epc EXCEPT ![r] = "wait"]
    /\ UNCHANGED <<engW, engMode, nheads_k, heads_k_stride, nheads, engCu, engCausal, alibi_slopes, lse_dims,
                   ei, active, kvbuf, ecomm, colls, waited, hwaits, reads, out_list, eng_out, eng_lse,
                   kv_contiguous_buffer, dkdv, dkdv_writes>>

\* a buffer half after the wait: the data of a completed gather into it
Landed(r, b, part) ==
    LET hs == {h \in Handles(r) :
                  h.out = <<b, part>> /\ Complete(r, <<"all_gather", h.inp[1], h.inp[2]>>)}
    IN  IF hs = {} THEN kvbuf[r][b][part]
        ELSE LET h == CHOOSE h \in hs : TRUE IN Gathered(h.inp[1], h.inp[2])

\* lines 105, 233: comm.wait()
EngWait(r) ==
    /\ epc[r] = "wait"
    /\ \A h \in Handles(r) : handle_wait(r, h)
    /\ kvbuf' = [kvbuf EXCEPT ![r] =
                    [b \in {0, 1} |-> [k |-> Landed(r, b, "k"), v |-> Landed(r, b, "v")]]]
    /\ ecomm' = [ecomm EXCEPT ![r] = AllGatherComm_wait(@).obj]
    /\ waited' = [waited EXCEPT ![r] = @ \cup
                     {h.inp[2] : h \in {x \in Handles(r) :
                         Complete(r, <<"all_gather", x.inp[1], x.inp[2]>>)}}]
    /\ hwaits' = [hwaits EXCEPT ![r] =
                     @ \o [n \in 1..Len(ecomm[r].handles) |-> ecomm[r].handles[n].inp]]
    /\ epc' = [epc EXCEPT ![r] = "swap"]
    /\ UNCHANGED <<engW, engMode, nheads_k, heads_k_stride, nheads, engCu, engCausal, alibi_slopes, lse_dims,
                   ei, active, colls, reads, out_list, eng_out, eng_lse, dkv_buffer,
                   kv_contiguous_buffer, dkdv, dkdv_writes>>

\* lines 106, 234
EngSwap(r) ==
    /\ epc[r] = "swap"
    /\ active' = [active EXCEPT ![r] = Swap(@)]
    /\ epc' = [epc EXCEPT ![r] = "issue"]
    /\ UNCHANGED <<engW, engMode, nheads_k, heads_k_stride, nheads, engCu, engCausal, alibi_slopes, lse_dims,
                   ei, kvbuf, ecomm, colls, waited, hwaits, reads, out_list, eng_out, eng_lse, dkv_buffer,
                   kv_contiguous_buffer, dkdv, dkdv_writes>>

\* lines 108-115, 236-243: the gathers of the next window, unless this is
\* the last one
EngIssue(r) ==
    /\ epc[r] = "issue"
    /\ IF ei[r] < nheads_k - heads_k_stride
       THEN IssueGathers(r, GatherDst(active[r]), ei[r] + heads_k_stride)
       ELSE UNCHANGED <<ecomm, kvbuf, colls>>
    /\ epc' = [epc EXCEPT ![r] = "kernel"]
    /\ UNCHANGED <<engW, engMode, nheads_k, heads_k_stride, nheads, engCu, engCausal, alibi_slopes, lse_dims,
                   ei, active, waited, hwaits, reads, out_list, eng_out, eng_lse, dkv_buffer,
                   kv_contiguous_buffer, dkdv, dkdv_writes>>

\* what the kernel call of the window is given (lines 117-130, 245-265)
KernelArgs(r) ==
    [win |-> ei[r], q_lo |-> q_slice(ei[r]).lo, q_hi |-> q_slice(ei[r]).hi,
     k |-> kvbuf[r][active[r]].k, v |-> kvbuf[r][active[r]].v]

\* the KV head that the kernel pairs with head j of the query heads it is
\* given: the heads of q_i share the heads of k_i in equal groups
kv_head_of(args, j) ==
    args.win + j \div ((args.q_hi - args.q_lo) \div heads_k_stride)

\* one head of a window's out or lse: what was attended by what
AttnHead(what, r, args, j) ==
    [what |-> what, rank |-> r, q |-> args.q_lo + j, kv |-> kv_head_of(args, j),
     k |-> args.k, v |-> args.v]

\* lines 148-152: the kernel's out, (total_q, heads of q_i, head_dim), and
\* lse, (heads of q_i, total_q) or (batch, heads of q_i, max_seqlen); the
\* token, batch and head_dim axes have one entry
WindowOut(r, args) ==
    LET shape == <<1, args.q_hi - args.q_lo, 1>>
    IN  Tensor(shape, [idx \in Indices(shape) |-> AttnHead("out", r, args, idx[2])])

WindowLse(r, args) ==
    LET n == args.q_hi - args.q_lo
        shape == IF lse_dims = 3 THEN <<1, n, 1>> ELSE <<n, 1>>
    IN  Tensor(shape,
               [idx \in Indices(shape) |-> AttnHead("lse", r, args, idx[Len(shape) - 1])])

\* line 156 with dim=0: the windows' outputs joined along the token axis
cat_out_tokens(list) == cat(list, 1)

\* line 156: out = torch.cat(out_list, dim=1)
cat_out(list) == cat(list, 2)

\* line 157: lse = torch.cat(lse_list, dim=-2)
cat_lse(list) == cat(list, Len(list[1].shape) - 1)

\* lines 225, 227-231 taking the first heads whatever the window
head_slice_first(t, d, sl) == SliceDim(t, d, 0, sl.hi - sl.lo)

\* lines 225, 227-231: t[:, q_slice] or t[q_slice]
head_slice(t, d, sl) == SliceDim(t, d, sl.lo, sl.hi)

\* line 225: out_i = out[:, q_slice]
out_i(r) == head_slice(eng_out[r], 2, q_slice(ei[r]))

\* lines 227-231: lse_i = softmax_lse[:, q_slice].contiguous() if
\* softmax_lse.dim() == 3 else softmax_lse[q_slice]
lse_i(r) ==
    IF Len(eng_lse[r].shape) = 3
    THEN head_slice(eng_lse[r], 2, q_slice(ei[r]))
    ELSE head_slice(eng_lse[r], 1, q_slice(ei[r]))

\* what the backward kernel call of the window is given (lines 245-265)
BackwardKernelArgs(r) ==
    [win |-> ei[r], q_lo |-> q_slice(ei[r]).lo, q_hi |-> q_slice(ei[r]).hi,
     k |-> kvbuf[r][active[r]].k, v |-> kvbuf[r][active[r]].v,
     out |-> out_i(r), softmax_lse |-> lse_i(r)]

\* what the forward engine hands to each window's kernel when its gathers
\* have landed, window by window
ForwardWindows ==
    [n \in 1..(nheads_k \div heads_k_stride) |->
        LET i == (n - 1) * heads_k_stride
        IN  [win |-> i, q_lo |-> q_slice(i).lo, q_hi |-> q_slice(i).hi,
             k |-> Gathered("k", i), v |-> Gathered("v", i)]]

\* ctx.saved_tensors (lines 349, 369): the out and softmax_lse that the
\* forward engine returned to Llama3FlashAttnVarlenFunc.forward
saved_out(r) ==
    cat_out([n \in DOMAIN ForwardWindows |-> WindowOut(r, ForwardWindows[n])])

saved_lse(r) ==
    cat_lse([n \in DOMAIN ForwardWindows |-> WindowLse(r, ForwardWindows[n])])

\* lines 247-248, 282: the backward kernel writes its dK (dV) for the keys
\* of local_k_slice and the heads of the window into dkv_buffer
KernelWrites(r, buf) ==
    [part \in Parts |->
        [c \in DOMAIN buf[part] |->
            IF c[1] \in local_k_slice(r)
            THEN Contribution(r, part, ei[r] + c[2], c[1])
            ELSE buf[part][c]]]

\* lines 117-154: the forward kernel; the window's output is recorded, and
\* the loop goes on to the next window or ends
EngForwardKernel(r) ==
    /\ epc[r] = "kernel" /\ engMode = "forward"
    /\ reads' = [reads EXCEPT ![r] = Append(@, KernelArgs(r))]
    /\ out_list' = [out_list EXCEPT ![r] = Append(@, KernelArgs(r))]
    /\ IF ei[r] + heads_k_stride < nheads_k
       THEN UNCHANGED <<eng_out, eng_lse>>
       ELSE \* the kernel results in out_list and lse_list after lines 153-154
            \E list \in {Append(out_list[r], KernelArgs(r))} :
            \E outs \in {[n \in DOMAIN list |-> WindowOut(r, list[n])]} :
            \E lses \in {[n \in DOMAIN list |-> WindowLse(r, list[n])]} :
                /\ eng_out' = [eng_out EXCEPT ![r] = cat_out(outs)]
                /\ eng_lse' = [eng_lse EXCEPT ![r] = cat_lse(lses)]
    /\ ei' = [ei EXCEPT ![r] = @ + heads_k_stride]
    /\ epc' = [epc EXCEPT ![r] =
                  IF ei[r] + heads_k_stride < nheads_k THEN "wait" ELSE "done"]
    /\ UNCHANGED <<engW, engMode, nheads_k, heads_k_stride, nheads, engCu, engCausal, alibi_slopes, lse_dims,
                   active, kvbuf, ecomm, colls, waited, hwaits, dkv_buffer,
                   kv_contiguous_buffer, dkdv, dkdv_writes>>

\* lines 245-292: the backward kernel, then the call of
\* reduce_scatter_tensor for dK
EngBackwardKernel(r) ==
    /\ epc[r] = "kernel" /\ engMode = "backward"
    /\ reads' = [reads EXCEPT ![r] = Append(@, BackwardKernelArgs(r))]
    /\ dkv_buffer' = [dkv_buffer EXCEPT ![r] = KernelWrites(r, @)]
    /\ colls' = [colls EXCEPT ![r] = Append(@, <<"reduce_scatter", "k", ei[r]>>)]
    /\ epc' = [epc EXCEPT ![r] = "rs_k"]
    /\ UNCHANGED <<engW, engMode, nheads_k, heads_k_stride, nheads, engCu, engCausal, alibi_slopes, lse_dims,
                   ei, active, kvbuf, ecomm, waited, hwaits, out_list, eng_out, eng_lse,
                   kv_contiguous_buffer, dkdv, dkdv_writes>>

RECURSIVE SumOverRanks(_, _, _)
SumOverRanks(n, part, c) ==
    IF n = 0 THEN ZeroGrad
    ELSE SumOverRanks(n - 1, part, c) (+) dkv_buffer[n - 1][part][c]

\* dist.reduce_scatter_tensor(output, dkv_buffer[part]): rank r's output row
\* t is the sum over the ranks of row r * total_k + t of their inputs
ReduceScatterWrongChunk(r, part, t, j) ==
    SumOverRanks(engW, part, <<t, j>>)

ReduceScatterOut(r, part, t, j) ==
    SumOverRanks(engW, part, <<r * TokensPerRank + t, j>>)

\* lines 284-293: the output is kv_contiguous_buffer when the window is
\* narrower than the KV heads, the returned dk (dv) itself otherwise
EngReduceScatter(part) ==
    /\ \A r \in EngRanks : epc[r] = "rs_" \o part
    /\ IF heads_k_stride # nheads_k
       THEN /\ kv_contiguous_buffer' =
                   [r \in EngRanks |->
                       [kv_contiguous_buffer[r] EXCEPT ![part] =
                           [c \in DOMAIN @ |-> ReduceScatterOut(r, part, c[1], c[2])]]]
            /\ UNCHANGED <<dkdv, dkdv_writes>>
       ELSE /\ dkdv' =
                   [r \in EngRanks |->
                       [dkdv[r] EXCEPT ![part] =
                           [c \in DOMAIN @ |-> ReduceScatterOut(r, part, c[1], c[2])]]]
            /\ dkdv_writes' =
                   [r \in EngRanks |->
                       dkdv_writes[r] (+)
                       SetToBag({<<part, h, ei[r]>> : h \in 0..(nheads_k - 1)})]
            /\ UNCHANGED kv_contiguous_buffer
    /\ IF part = "k"
       THEN /\ colls' = [r \in EngRanks |->
                            Append(colls[r], <<"reduce_scatter", "v", ei[r]>>)]
            /\ epc' = [r \in EngRanks |-> "rs_v"]
       ELSE /\ epc' = [r \in EngRanks |-> "copy"]
            /\ UNCHANGED colls
    /\ UNCHANGED <<engW, engMode, nheads_k, heads_k_stride, nheads, engCu, engCausal, alibi_slopes, lse_dims,
                   ei, active, kvbuf, ecomm, waited, hwaits, reads, out_list, eng_out, eng_lse, dkv_buffer>>

\* lines 296-297 with the slice [0 : heads_k_stride] for every window
window_heads_first(i) == 0..(heads_k_stride - 1)

\* lines 296-297: the heads of the slice [i : i + heads_k_stride]
window_heads(i) == i..(i + heads_k_stride - 1)

\* lines 295-297: dk[:, i : i + heads_k_stride] = dk_i (and dv)
CopyWindow(r, grads) ==
    [part \in Parts |->
        [c \in DOMAIN grads[part] |->
            IF c[2] \in window_heads(ei[r])
            THEN kv_contiguous_buffer[r][part][<<c[1], c[2] - SetMin(window_heads(ei[r]))>>]
            ELSE grads[part][c]]]

\* lines 295-299: the copy, then the next window or the return
EngCopy(r) ==
    /\ epc[r] = "copy"
    /\ IF heads_k_stride # nheads_k
       THEN /\ dkdv' = [dkdv EXCEPT ![r] = CopyWindow(r, @)]
            /\ dkdv_writes' = [dkdv_writes EXCEPT ![r] =
                   @ (+) SetToBag({<<part, h, ei[r]>> :
                                      part \in Parts, h \in window_heads(ei[r])})]
       ELSE UNCHANGED <<dkdv, dkdv_writes>>
    /\ ei' = [ei EXCEPT ![r] = @ + heads_k_stride]
    /\ epc' = [epc EXCEPT ![r] =
                  IF ei[r] + heads_k_stride < nheads_k THEN "zero" ELSE "done"]
    /\ UNCHANGED <<engW, engMode, nheads_k, heads_k_stride, nheads, engCu, engCausal, alibi_slopes, lse_dims,
                   active, kvbuf, ecomm, colls, waited, hwaits, reads, out_list, eng_out, eng_lse, dkv_buffer,
                   kv_contiguous_buffer>>

EngIdle ==
    /\ engW = 0 /\ engMode = "idle" /\ nheads_k = 0 /\ heads_k_stride = 0
    /\ nheads = 0 /\ engCu = <<0>> /\ engCausal = FALSE /\ alibi_slopes = "None"
    /\ epc = << >> /\ ei = << >> /\ active = << >> /\ kvbuf = << >>
    /\ ecomm = << >> /\ colls = << >> /\ waited = << >> /\ reads = << >>
    /\ out_list = << >> /\ dkv_buffer = << >> /\ kv_contiguous_buffer = << >>
    /\ dkdv = << >> /\ hwaits = << >> /\ dkdv_writes = << >>
    /\ eng_out = << >> /\ eng_lse = << >> /\ lse_dims = 0

EngInit ==
    /\ engW \in 1..MaxEngWorld
    /\ engMode \in {"forward", "backward"}
    /\ nheads_k \in 1..MaxHeadsK
    /\ heads_k_stride \in 1..MaxHeadsK
    /\ nheads \in {nheads_k, 2 * nheads_k}
    /\ engCu \in EngLayouts(EngTotal)
    /\ engCausal \in BOOLEAN
    \* backward receives ctx.alibi_slopes, which forward stored after line 327
    /\ alibi_slopes \in (IF engMode = "forward" THEN {"None", "slopes"} ELSE {"None"})
    \* the lse of the flash-attn build: (heads, total_q) or (batch, heads, max_seqlen)
    /\ lse_dims \in {2, 3}
    \* backward receives the out and softmax_lse that forward saved in ctx
    /\ eng_out = [r \in EngRanks |->
                     IF engMode = "backward" /\ divisible(nheads_k, heads_k_stride)
                     THEN saved_out(r) ELSE NoTensor]
    /\ eng_lse = [r \in EngRanks |->
                     IF engMode = "backward" /\ divisible(nheads_k, heads_k_stride)
                     THEN saved_lse(r) ELSE NoTensor]
    /\ epc = [r \in EngRanks |-> "call"]
    /\ ei = [r \in EngRanks |-> 0]
    /\ active = [r \in EngRanks |-> 0]
    /\ kvbuf = [r \in EngRanks |-> [b \in {0, 1} |-> [k |-> Garbage, v |-> Garbage]]]
    /\ ecomm = [r \in EngRanks |-> AllGatherComm_init]
    /\ colls = [r \in EngRanks |-> << >>]
    /\ waited = [r \in EngRanks |-> {}]
    /\ hwaits = [r \in EngRanks |-> << >>]
    /\ reads = [r \in EngRanks |-> << >>]
    /\ out_list = [r \in EngRanks |-> << >>]
    /\ dkv_buffer = [r \in EngRanks |-> [part \in Parts |->
          [c \in EngTokens \X (0..(heads_k_stride - 1)) |-> GarbageGrad]]]
    /\ kv_contiguous_buffer = [r \in EngRanks |-> [part \in Parts |->
          [c \in LocalTokens \X (0..(heads_k_stride - 1)) |-> GarbageGrad]]]
    /\ dkdv = [r \in EngRanks |-> [part \in Parts |->
          [c \in LocalTokens \X (0..(nheads_k - 1)) |-> GarbageGrad]]]
    /\ dkdv_writes = [r \in EngRanks |-> EmptyBag]

EngNext ==
    \/ \E r \in EngRanks : EngCall(r)
    \/ \E r \in EngRanks : EngStart(r)
    \/ \E r \in EngRanks : EngZero(r)
    \/ \E r \in EngRanks : EngWait(r)
    \/ \E r \in EngRanks : EngSwap(r)
    \/ \E r \in EngRanks : EngIssue(r)
    \/ \E r \in EngRanks : EngForwardKernel(r)
    \/ \E r \in EngRanks : EngBackwardKernel(r)
    \/ \E part \in Parts : EngReduceScatter(part)
    \/ \E r \in EngRanks : EngCopy(r)

(***************************************************************************)
(* flatten_varlen_lse and unflatten_varlen_lse.  The file defines each     *)
(* name twice: the triton versions (lines 548-650) and, after them, the    *)
(* torch.jit.script versions (lines 723-740), which are the ones the names *)
(* are bound to once the module is loaded.  Both pairs are modelled.       *)
(***************************************************************************)
\* columns of lse[i, :, : end - start] (a slice stops at the dimension's end)
PieceLen(lse, cu, i) == Min2(Max2(At(cu, i + 1) - At(cu, i), 0), lse.shape[3])

RECURSIVE PieceStart(_, _, _)
PieceStart(lse, cu, i) ==
    IF i = 0 THEN 0 ELSE PieceStart(lse, cu, i - 1) + PieceLen(lse, cu, i - 1)

\* torch.cat(new_lse, dim=1): the piece column c falls in
PieceOf(lse, cu, c) ==
    CHOOSE i \in 0..(Len(cu) - 2) :
        PieceStart(lse, cu, i) <= c /\ c < PieceStart(lse, cu, i + 1)

\* lines 723-729
flatten_varlen_lse(lse, cu) ==
    LET n == Len(cu) - 1
    IN IF n = 0
       THEN Raises(NoTensor, "torch.cat of an empty list")
       ELSE Returns(Tensor(<<lse.shape[2], PieceStart(lse, cu, n)>>,
                [idx \in Indices(<<lse.shape[2], PieceStart(lse, cu, n)>>) |->
                    LET i == PieceOf(lse, cu, idx[2])
                    IN Elem(lse, <<i, idx[1], idx[2] - PieceStart(lse, cu, i)>>)]))

\* rows of lse[start:end] along dimension 0
RowsOf(lse, start, end) ==
    Max2(Min2(end, lse.shape[1]) - Min2(start, lse.shape[1]), 0)

\* the shape of lse[start:end], left-padded with 1 to three dimensions
SourceShape(lse, start, end) ==
    LET s == <<RowsOf(lse, start, end)>> \o Tail(lse.shape)
    IN IF Len(s) = 2 THEN <<1>> \o s ELSE s

\* new_lse[i, : end - start] = src broadcasts src to the target's shape
Broadcastable(src, tgt) ==
    /\ Len(src) = Len(tgt)
    /\ \A d \in 1..Len(tgt) : src[d] = tgt[d] \/ src[d] = 1

\* the element of lse[start:end] that lands at tgt_idx of the target
SourceElem(lse, start, end, tgt_idx) ==
    LET s == SourceShape(lse, start, end)
        b == [d \in 1..3 |-> IF s[d] = 1 THEN 0 ELSE tgt_idx[d]]
    IN IF Len(lse.shape) = 2
       THEN Elem(lse, <<start + b[2], b[3]>>)
       ELSE Elem(lse, <<start + b[1], b[2], b[3]>>)

\* lines 732-740
unflatten_varlen_lse(lse, cu, max_seqlen, fill) ==
    LET num_seq == Len(cu) - 1
        num_head == lse.shape[Len(lse.shape) - 1]
        start(i) == At(cu, i)
        end(i) == At(cu, i + 1)
        rows(i) == Min2(Max2(end(i) - start(i), 0), max_seqlen)
        fits(i) == Broadcastable(SourceShape(lse, start(i), end(i)),
                                 <<rows(i), num_head, 1>>)
    IN IF \E i \in 0..(num_seq - 1) : ~fits(i)
       THEN Raises(NoTensor, "shape mismatch")
       ELSE \* new_lse.squeeze(dim=-1).transpose(1, 2).contiguous()
            Returns(Tensor(<<num_seq, num_head, max_seqlen>>,
                [idx \in Indices(<<num_seq, num_head, max_seqlen>>) |->
                    IF idx[3] < rows(idx[1])
                    THEN SourceElem(lse, start(idx[1]), end(idx[1]),
                                    <<idx[3], idx[2], 0>>)
                    ELSE fill]))  \* line 736: torch.empty

\* BLOCK_M = 4 (lines 562 and 631)
BLOCK_M == 4

\* tl.load(ptr): a load outside the tensor's memory reads what lies there
Load(mem, addr, fill) == IF addr + 1 \in DOMAIN mem THEN mem[addr + 1] ELSE fill

\* the programs of a launch and the lanes of tl.arange(0, BLOCK_M)
Grid(max_seqlen, batch_size, nheads_) ==
    (0..(cdiv(max_seqlen, BLOCK_M) - 1)) \X (0..(batch_size - 1))
        \X (0..(nheads_ - 1)) \X (0..(BLOCK_M - 1))

\* the masked stores of a launch: address |-> value.  For a non-decreasing
\* cu_seqlens no two programs store to one address.
Stored(stores, addr, old) ==
    IF \E s \in stores : s[1] = addr
    THEN (CHOOSE s \in stores : s[1] = addr)[2]
    ELSE old

\* flatten_kernel (lines 516-545) launched by flatten_varlen_lse (548-578)
triton_flatten_varlen_lse(lse, cu, fill) ==
    LET total_seqlen == Last(cu)
        batch_size == lse.shape[1]
        nheads_ == lse.shape[2]
        max_seqlen == lse.shape[3]
        output == empty(<<nheads_, total_seqlen>>, fill)
        stores ==
            {<<p[3] * output.stride[1] + At(cu, p[2]) * output.stride[2]
                   + (p[1] * BLOCK_M + p[4]) * output.stride[2],
               Load(lse.mem, p[2] * lse.stride[1] + p[3] * lse.stride[2]
                   + (p[1] * BLOCK_M + p[4]) * lse.stride[3], fill)>> :
             p \in {g \in Grid(max_seqlen, batch_size, nheads_) :
                      g[1] * BLOCK_M + g[4] < At(cu, g[2] + 1) - At(cu, g[2])}}
    IN Returns([output EXCEPT !.mem =
           [a \in DOMAIN output.mem |-> Stored(stores, a - 1, output.mem[a])]])

\* unflatten_kernel (lines 581-610) launched by unflatten_varlen_lse (613-650)
triton_unflatten_varlen_lse(lse_, cu, max_seqlen, fill) ==
    LET lse == unsqueeze_last(lse_)
        batch_size == Len(cu) - 1
        nheads_ == lse.shape[2]
        output == empty(<<batch_size, nheads_, max_seqlen>>, fill)
        stores ==
            {<<p[2] * output.stride[1] + p[3] * output.stride[2]
                   + (p[1] * BLOCK_M + p[4]) * output.stride[3],
               Load(lse.mem, p[3] * lse.stride[2] + At(cu, p[2]) * lse.stride[1]
                   + (p[1] * BLOCK_M + p[4]) * lse.stride[1], fill)>> :
             p \in {g \in Grid(max_seqlen, batch_size, nheads_) :
                      g[1] * BLOCK_M + g[4] < At(cu, g[2] + 1) - At(cu, g[2])}}
    IN Returns([output EXCEPT !.mem =
           [a \in DOMAIN output.mem |-> Stored(stores, a - 1, output.mem[a])]])

(***************************************************************************)
(* SpecLse: one lse tensor of shape (batch, nheads, max_seqlen) holding a  *)
(* different value at every position is flattened and unflattened again,   *)
(* either handing flatten's result to unflatten as it is, or first laying  *)
(* it out token-major the way update_out_and_lse does with a block's lse   *)
(* (line 713: block_lse.transpose(-2, -1).unsqueeze(dim=-1)).              *)
(***************************************************************************)
\* the batches: at most MaxLseSeqs sequences of at most MaxLseLen rows each
RECURSIVE LseLayouts(_)
LseLayouts(n) ==
    IF n = 0 THEN {<<0>>}
    ELSE {Append(c, Last(c) + l) : c \in LseLayouts(n - 1), l \in 0..MaxLseLen}

LseLens(cu) == {cu[j + 1] - cu[j] : j \in 1..(Len(cu) - 1)}

\* the lse a varlen attention call returns for the batch: position
\* (b, h, row) holds a value of its own, never zero
LseInput(cu, H, M) ==
    Tensor(<<Len(cu) - 1, H, M>>,
           [idx \in Indices(<<Len(cu) - 1, H, M>>) |-> 1 + idx[1] * H * M + idx[2] * M + idx[3]])

LseIdle ==
    /\ lseImpl = "idle" /\ lseCu = <<0>> /\ lseMax = 0 /\ lseIn = NoTensor
    /\ lseFlat = NoTensor /\ lseArg = NoTensor /\ lseOut = NoTensor
    /\ lseDirect = FALSE /\ lsePc = "idle"

LseInit ==
    /\ lseImpl \in {"torch", "triton"}
    /\ lseCu \in UNION {LseLayouts(n) : n \in 0..MaxLseSeqs}
    /\ lseMax \in {m \in 1..(MaxLseLen + 1) : \A l \in LseLens(lseCu) : l <= m}
    /\ \E H \in 1..MaxLseHeads : lseIn = LseInput(lseCu, H, lseMax)
    /\ lseFlat = NoTensor /\ lseArg = NoTensor /\ lseOut = NoTensor
    /\ lseDirect = FALSE /\ lsePc = "start"

LseFlatten ==
    /\ lsePc = "start"
    /\ \E fill \in Uninit :
         LET res == IF lseImpl = "torch"
                    THEN flatten_varlen_lse(lseIn, lseCu)
                    ELSE triton_flatten_varlen_lse(lseIn, lseCu, fill)
         IN /\ lseFlat' = res.obj
            /\ lseArg' = res.obj
            /\ lsePc' = IF res.raised = "" THEN "flat" ELSE "raised"
    /\ UNCHANGED <<lseImpl, lseCu, lseMax, lseIn, lseOut, lseDirect>>

LseRelayout ==
    /\ lsePc = "flat"
    /\ lseArg' = unsqueeze_last(transpose_last2(lseFlat))
    /\ lsePc' = "relaid"
    /\ UNCHANGED <<lseImpl, lseCu, lseMax, lseIn, lseFlat, lseOut, lseDirect>>

LseUnflatten ==
    /\ lsePc \in {"flat", "relaid"}
    /\ \E fill \in Uninit :
         LET res == IF lseImpl = "torch"
                    THEN unflatten_varlen_lse(lseArg, lseCu, lseMax, fill)
                    ELSE triton_unflatten_varlen_lse(lseArg, lseCu, lseMax, fill)
         IN /\ lseOut' = res.obj
            /\ lsePc' = IF res.raised = "" THEN "done" ELSE "raised"
    /\ lseDirect' = (lsePc = "flat")
    /\ UNCHANGED <<lseImpl, lseCu, lseMax, lseIn, lseFlat, lseArg>>

LseNext == LseFlatten \/ LseRelayout \/ LseUnflatten

(***************************************************************************)
(* Numbers of update_out_and_lse.  Its arithmetic is modelled exactly:     *)
(* a rational is <<numerator, denominator>> in lowest terms.  An lse, or a  *)
(* difference of two, is kept as its exponential: Log(q) is the float       *)
(* whose exp is the rational q > 0; NegInf, PosInf and NaN are the floats   *)
(* -inf, +inf and nan.  out and sigmoid's result are Fin(q) or NaN.         *)
(* Rounding is not modelled.                                                *)
(***************************************************************************)
RECURSIVE GCD(_, _)
GCD(a, b) == IF b = 0 THEN a ELSE GCD(b, a % b)

Abs(a) == IF a < 0 THEN -a ELSE a

RNorm(n, d) ==
    LET g == GCD(Abs(n), Abs(d))
        s == IF d < 0 THEN -1 ELSE 1
    IN <<(s * n) \div g, (s * d) \div g>>

RSub(a, b) == RNorm(a[1] * b[2] - b[1] * a[2], a[2] * b[2])

RMul(a, b) == RNorm(a[1] * b[1], a[2] * b[2])

RDiv(a, b) == RNorm(a[1] * b[2], a[2] * b[1])

Fin(q) == [k |-> "fin", q |-> q]

Log(q) == [k |-> "log", q |-> q]

NaN == [k |-> "nan", q |-> <<0, 1>>]

NegInf == [k |-> "-inf", q |-> <<0, 1>>]

PosInf == [k |-> "+inf", q |-> <<0, 1>>]

\* a - b on two lse-like floats
LseSub(a, b) ==
    CASE a.k = "nan" \/ b.k = "nan" -> NaN
      [] a.k = "log" /\ b.k = "log" -> Log(RDiv(a.q, b.q))
      [] a.k = "log" /\ b.k = "-inf" -> PosInf
      [] a.k = "log" /\ b.k = "+inf" -> NegInf
      [] a.k = "-inf" /\ b.k = "-inf" -> NaN
      [] a.k = "+inf" /\ b.k = "+inf" -> NaN
      [] a.k = "-inf" -> NegInf
      [] a.k = "+inf" -> PosInf

\* F.sigmoid
sigmoid(x) ==
    CASE x.k = "nan" -> NaN
      [] x.k = "-inf" -> Fin(<<0, 1>>)
      [] x.k = "+inf" -> Fin(<<1, 1>>)
      [] x.k = "log" -> Fin(RDiv(x.q, RNorm(x.q[1] + x.q[2], x.q[2])))

\* F.logsigmoid
logsigmoid(x) ==
    CASE x.k = "nan" -> NaN
      [] x.k = "-inf" -> NegInf
      [] x.k = "+inf" -> Log(<<1, 1>>)
      [] x.k = "log" -> Log(RDiv(x.q, RNorm(x.q[1] + x.q[2], x.q[2])))

\* a - b and a * b on out-like floats
LinSub(a, b) == IF a.k = "nan" \/ b.k = "nan" THEN NaN ELSE Fin(RSub(a.q, b.q))

LinMul(a, b) == IF a.k = "nan" \/ b.k = "nan" THEN NaN ELSE Fin(RMul(a.q, b.q))

(***************************************************************************)
(* update_out_and_lse (lines 702-720) and _update_out_and_lse (681-699).   *)
(* out is (rows, heads, dim), lse (rows, heads, 1), a block's lse          *)
(* (heads, rows); slice_ selects rows [lo, hi) of the accumulator.         *)
(***************************************************************************)
NoSlice == <<-1, -1>>

\* t[slice_]: rows [lo, hi) of a tensor, a view
Rows(t, sl) ==
    Tensor(<<sl[2] - sl[1]>> \o Tail(t.shape),
           [idx \in Indices(<<sl[2] - sl[1]>> \o Tail(t.shape)) |-> Elem(t, <<idx[1] + sl[1]>> \o Tail(idx))])

\* t[slice_] = src
SetRows(t, sl, src) ==
    Tensor(t.shape,
           [idx \in Indices(t.shape) |-> IF sl[1] <= idx[1] /\ idx[1] < sl[2]
                        THEN Elem(src, <<idx[1] - sl[1]>> \o Tail(idx))
                        ELSE Elem(t, idx)])

\* line 698 with the arguments of logsigmoid exchanged
new_lse_swapped(lse, block_lse) == LseSub(lse, logsigmoid(LseSub(block_lse, lse)))

\* line 698: lse - F.logsigmoid(lse - block_lse)
new_lse(lse, block_lse) == LseSub(lse, logsigmoid(LseSub(lse, block_lse)))

\* line 697: out - F.sigmoid(block_lse - lse) * (out - block_out)
new_out(out, lse, block_out, block_lse) ==
    LinSub(out, LinMul(sigmoid(LseSub(block_lse, lse)), LinSub(out, block_out)))

\* lines 681-699; block_out.to(torch.float32) widens and keeps every value
update_out_and_lse_jit(out, lse, block_out, block_lse_) ==
    LET block_lse == unsqueeze_last(transpose_last2(block_lse_))
    IN [out |-> Tensor(out.shape, [idx \in Indices(out.shape) |->
                    new_out(Elem(out, idx), Elem(lse, <<idx[1], idx[2], 0>>),
                            Elem(block_out, idx), Elem(block_lse, <<idx[1], idx[2], 0>>))]),
        lse |-> Tensor(lse.shape, [idx \in Indices(lse.shape) |->
                    new_lse(Elem(lse, idx), Elem(block_lse, idx))]),
        raised |-> ""]

\* lines 702-720 without the check of lines 710-711
update_out_and_lse_unchecked(out, lse, block_out, block_lse, slice_) ==
    [out |-> block_out,
     lse |-> unsqueeze_last(transpose_last2(block_lse)),
     raised |-> ""]

\* lines 702-720
update_out_and_lse(out, lse, block_out, block_lse, slice_) ==
    IF out = NoTensor
    THEN IF slice_ # NoSlice
         THEN [out |-> out, lse |-> lse,
               raised |-> "first update_out_and_lse should not pass slice_ args"]
         ELSE [out |-> block_out,
               lse |-> unsqueeze_last(transpose_last2(block_lse)),
               raised |-> ""]
    ELSE IF slice_ # NoSlice
         THEN LET u == update_out_and_lse_jit(Rows(out, slice_), Rows(lse, slice_),
                                              block_out, block_lse)
              IN [out |-> SetRows(out, slice_, u.out),
                  lse |-> SetRows(lse, slice_, u.lse),
                  raised |-> ""]
         ELSE update_out_and_lse_jit(out, lse, block_out, block_lse)

(***************************************************************************)
(* SpecMerge: a caller merges up to MaxMergeCalls blocks into one          *)
(* accumulator of two rows (the two halves a slice_ can select), one head  *)
(* and one value per row.  A block covers both rows or the row of its      *)
(* slice; per row its out is 0 or 1 and its lse is log 1, log 2 or -inf    *)
(* (no key visible to the row).  merged[row] sums what was merged there.   *)
(***************************************************************************)
MergeRows == {0, 1}

MergeSlices == {<<0, 1>>, <<1, 2>>}

OutValues == {Fin(<<0, 1>>), Fin(<<1, 1>>)}

LseValues == {Log(<<1, 1>>), Log(<<2, 1>>), NegInf}

\* the softmax mass exp(lse) of a block's row
Mass(l) == IF l.k = "log" THEN l.q[1] ELSE 0

SliceRows(sl) == IF sl = NoSlice THEN MergeRows ELSE {r \in MergeRows : sl[1] <= r /\ r < sl[2]}

SliceLo(sl) == IF sl = NoSlice THEN 0 ELSE sl[1]

\* the blocks of n rows: block_out (n, 1, 1) and block_lse (1, n); a row no
\* key is visible to has out 0
Blocks ==
    [n \in 1..2 |->
        {[out |-> Tensor(<<n, 1, 1>>, [idx \in Indices(<<n, 1, 1>>) |-> f[idx[1]][1]]),
          lse |-> Tensor(<<1, n>>, [idx \in Indices(<<1, n>>) |-> f[idx[2]][2]])] :
         f \in [0..(n - 1) -> {v \in OutValues \X LseValues :
                                  v[2] = NegInf => v[1] = Fin(<<0, 1>>)}]}]

NothingMerged == [mass |-> 0, mo |-> 0, finite |-> TRUE]

MergeIdle ==
    /\ mOut = NoTensor /\ mLse = NoTensor /\ mCalls = -1 /\ mRaised = ""
    /\ mSlice = NoSlice /\ mBlockOut = NoTensor /\ mBlockLse = NoTensor
    /\ mWasNone = FALSE /\ merged = << >>

MergeInit ==
    /\ mOut = NoTensor /\ mLse = NoTensor /\ mCalls = 0 /\ mRaised = ""
    /\ mSlice = NoSlice /\ mBlockOut = NoTensor /\ mBlockLse = NoTensor
    /\ mWasNone = FALSE /\ merged = [r \in MergeRows |-> NothingMerged]

MergeCall ==
    /\ mCalls >= 0 /\ mCalls < MaxMergeCalls
    /\ \E sl \in MergeSlices \cup {NoSlice} :
       \E b \in Blocks[Cardinality(SliceRows(sl))] :
         LET res == update_out_and_lse(mOut, mLse, b.out, b.lse, sl)
         IN /\ mOut' = res.out
            /\ mLse' = res.lse
            /\ mRaised' = res.raised
            /\ mSlice' = sl
            /\ mWasNone' = (mOut = NoTensor)
            /\ mBlockOut' = IF mOut = NoTensor THEN b.out ELSE NoTensor
            /\ mBlockLse' = IF mOut = NoTensor THEN b.lse ELSE NoTensor
            /\ merged' =
                 IF res.raised # "" THEN merged
                 ELSE [r \in MergeRows |->
                        IF r \in SliceRows(sl)
                        THEN LET l == Elem(b.lse, <<0, r - SliceLo(sl)>>)
                                 o == Elem(b.out, <<r - SliceLo(sl), 0, 0>>)
                             IN [mass |-> merged[r].mass + Mass(l),
                                 mo |-> merged[r].mo + Mass(l) * o.q[1],
                                 finite |-> merged[r].finite /\ l.k = "log"]
                        ELSE merged[r]]
    /\ mCalls' = mCalls + 1

(***************************************************************************)
(* The specifications.                                                     *)
(***************************************************************************)
InitPrep == PrepInit /\ ApiIdle /\ RingIdle /\ EngIdle /\ LseIdle /\ MergeIdle

NextPrep == Prepare /\ UNCHANGED <<apiVars, ringVars, engVars, lseVars, mrgVars>>

SpecPrep == InitPrep /\ [][NextPrep]_vars

InitApi == ApiInit /\ PrepIdle /\ RingIdle /\ EngIdle /\ LseIdle /\ MergeIdle

NextApi ==
    \/ (ApiSendRecv /\ UNCHANGED <<prepVars, ringVars, engVars, lseVars, mrgVars>>)
    \/ (ApiCommit /\ UNCHANGED <<prepVars, ringVars, engVars, lseVars, mrgVars>>)
    \/ (ApiWait /\ UNCHANGED <<prepVars, ringVars, engVars, lseVars, mrgVars>>)
    \/ (ApiSendRecvKv /\ UNCHANGED <<prepVars, ringVars, engVars, lseVars, mrgVars>>)
    \/ (ApiAllGather /\ UNCHANGED <<prepVars, ringVars, engVars, lseVars, mrgVars>>)
    \/ (ApiAgWait /\ UNCHANGED <<prepVars, ringVars, engVars, lseVars, mrgVars>>)

SpecApi == InitApi /\ [][NextApi]_vars

InitRing == RingInit /\ PrepIdle /\ ApiIdle /\ EngIdle /\ LseIdle /\ MergeIdle

NextRing == RingNext /\ UNCHANGED <<prepVars, apiVars, engVars, lseVars, mrgVars>>

SpecRing == InitRing /\ [][NextRing]_vars

InitEng == EngInit /\ PrepIdle /\ ApiIdle /\ RingIdle /\ LseIdle /\ MergeIdle

NextEng == EngNext /\ UNCHANGED <<prepVars, apiVars, ringVars, lseVars, mrgVars>>

SpecEng == InitEng /\ [][NextEng]_vars

\* every rank is a running process and the backend completes a collective
\* that every rank has joined: a step that stays possible is taken
SpecEngFair == InitEng /\ [][NextEng]_vars /\ WF_vars(NextEng)

InitLse == LseInit /\ PrepIdle /\ ApiIdle /\ RingIdle /\ EngIdle /\ MergeIdle

NextLse == LseNext /\ UNCHANGED <<prepVars, apiVars, ringVars, engVars, mrgVars>>

SpecLse == InitLse /\ [][NextLse]_vars

InitMerge == MergeInit /\ PrepIdle /\ ApiIdle /\ RingIdle /\ EngIdle /\ LseIdle

NextMerge == MergeCall /\ UNCHANGED <<prepVars, apiVars, ringVars, engVars, lseVars>>

SpecMerge == InitMerge /\ [][NextMerge]_vars

(***************************************************************************)
(* Claims about llama3_flash_attn_prepare_cu_seqlens (under SpecPrep).     *)
(***************************************************************************)
TotalLength == Last(cu_seqlens)

ValidLayout == TotalLength % world_size = 0

LengthPerRank == TotalLength \div world_size

Returned == prepPc = "done" /\ ret.status = "ok"

\* The global query range [lo, hi) that rank r's cu_seqlens_q describes.
QueryRange(r) ==
    LET res == llama3_flash_attn_prepare_cu_seqlens(cu_seqlens, causal, r, world_size)
    IN  [ok |-> res.status = "ok",
         lo |-> r * LengthPerRank + (IF res.status = "ok" THEN res.cu_seqlens_q[1] ELSE 0),
         hi |-> r * LengthPerRank + (IF res.status = "ok" THEN Last(res.cu_seqlens_q) ELSE 0)]

\* Every global token lies in the query range of exactly one rank, and every
\* rank's range is [r*L, (r+1)*L).
PartitionComplete ==
    /\ \A r \in 0..(world_size - 1) :
          /\ QueryRange(r).ok
          /\ QueryRange(r).lo = r * LengthPerRank
          /\ QueryRange(r).hi = (r + 1) * LengthPerRank
    /\ \A t \in 0..(TotalLength - 1) :
          Cardinality({r \in 0..(world_size - 1) :
                          QueryRange(r).lo <= t /\ t < QueryRange(r).hi}) = 1

PrepPostcondition ==
    /\ ret.status = "ok"
    /\ ret.cu_seqlens_q[1] = 0
    /\ Last(ret.cu_seqlens_q) = LengthPerRank
    /\ PartitionComplete

\* C1 as stated: for every non-decreasing cu_seqlens starting at 0 whose
\* total is divisible by world_size and every rank, the call returns a
\* cu_seqlens_q with first entry 0 and last entry total_length/world_size,
\* and the ranks' query ranges tile [0, total_length).
C1_AsStated ==
    (prepPc = "done" /\ ValidLayout) => PrepPostcondition

\* C1 amended: the same, for layouts whose total_length is positive (with a
\* total of 0 the call raises at the .max() of an empty tensor).
C1_PartitionComplete ==
    (prepPc = "done" /\ ValidLayout /\ TotalLength > 0) => PrepPostcondition

\* C1 witness: a returned call of the middle rank of three, on a layout whose
\* single sequence spans every rank.
C1_Witness ==
    /\ Returned
    /\ world_size = 3 /\ rank = 1
    /\ Len(cu_seqlens) = 2 /\ TotalLength > 0

\* C2: with causal=True the upper bound of the returned local_k_slice never
\* exceeds (rank+1)*length_per_rank.
C2_CausalBound ==
    (Returned /\ causal) => ret.slice_right <= (rank + 1) * LengthPerRank

\* C2 witness: a returned causal call of a rank whose last sequence goes on
\* beyond the rank's end.
C2_Witness ==
    /\ Returned /\ causal
    /\ \E j \in 1..(Len(cu_seqlens) - 1) :
          /\ cu_seqlens[j] < (rank + 1) * LengthPerRank
          /\ cu_seqlens[j + 1] > (rank + 1) * LengthPerRank

\* The (non-empty) global sequences that overlap this rank's query range.
Overlapping ==
    {j \in 1..(Len(cu_seqlens) - 1) :
        /\ cu_seqlens[j] < (rank + 1) * LengthPerRank
        /\ cu_seqlens[j + 1] > rank * LengthPerRank}

\* C3: with causal=False the returned local_k_slice runs from the global
\* start of the first sequence overlapping the rank's query range to the
\* global end of the last one, and cu_seqlens_k holds every overlapping
\* sequence at its full length (and nothing else of positive length).
C3_NonCausalFullSequences ==
    (Returned /\ ~causal) =>
        LET k == ret.cu_seqlens_k
            sl == ret.slice_left
        IN  /\ Overlapping # {}
            /\ sl = SetMin({cu_seqlens[j] : j \in Overlapping})
            /\ ret.slice_right = SetMax({cu_seqlens[j + 1] : j \in Overlapping})
            /\ k[1] = 0
            /\ sl + Last(k) = ret.slice_right
            /\ Len(k) = Len(ret.cu_seqlens_q)
            /\ \A j \in Overlapping :
                  \E m \in 1..(Len(k) - 1) :
                      sl + k[m] = cu_seqlens[j] /\ sl + k[m + 1] = cu_seqlens[j + 1]
            /\ \A m \in 1..(Len(k) - 1) :
                  k[m + 1] # k[m] =>
                      \E j \in Overlapping :
                          sl + k[m] = cu_seqlens[j] /\ sl + k[m + 1] = cu_seqlens[j + 1]

\* C3 witness: a returned non-causal call of the middle rank of three, inside
\* a sequence that starts before the rank and ends after it.
C3_Witness ==
    /\ Returned /\ ~causal
    /\ world_size = 3 /\ rank = 1
    /\ \E j \in 1..(Len(cu_seqlens) - 1) :
          /\ cu_seqlens[j] < rank * LengthPerRank
          /\ cu_seqlens[j + 1] > (rank + 1) * LengthPerRank

\* C4: for cu_seqlens=[0,6,16], world_size=2, causal=True, rank 0 gets the
\* global query tokens [0,8) with key upper bound 8 and rank 1 gets [8,16)
\* with key upper bound 16.
C4_Scenario ==
    (prepPc = "done" /\ cu_seqlens = <<0, 6, 16>> /\ world_size = 2 /\ causal) =>
        /\ ret.status = "ok"
        /\ {rank * 8 + t : t \in ret.cu_seqlens_q[1]..(Last(ret.cu_seqlens_q) - 1)}
              = (IF rank = 0 THEN 0..7 ELSE 8..15)
        /\ ret.slice_right = (IF rank = 0 THEN 8 ELSE 16)

\* C4 witness: the scenario's call of rank 1 has returned.
C4_Witness ==
    /\ Returned /\ causal
    /\ cu_seqlens = <<0, 6, 16>> /\ world_size = 2 /\ rank = 1

(***************************************************************************)
(* Claims about the two communication objects (under SpecApi).             *)
(***************************************************************************)
\* C9: in RingComm, under any sequence of send_recv/commit/wait calls, a
\* commit() while a committed batch has not been waited raises, and a wait()
\* with no commit pending (never committed, or already waited) raises; the
\* failed call changes nothing but what it enqueued.
C9_RingCommErrors ==
    [][ /\ (ApiCommit /\ rc.reqs # None) =>
              (rcRaised' = "commit called twice" /\ rc' = rc)
        /\ (ApiSendRecvKv /\ rc.reqs # None) =>
              (rcRaised' = "commit called twice" /\ rc'.reqs = rc.reqs)
        /\ (ApiWait /\ rc.reqs = None) =>
              (rcRaised' = "wait called before commit" /\ rc' = rc)
      ]_vars

\* C9 witness: a wait() that raised after an earlier committed batch had
\* been waited (the queue is empty again and nothing is pending).
C9_Witness ==
    /\ rcLast = "wait" /\ rcRaised = "wait called before commit"
    /\ rcIssued > 0 /\ rc.ops = << >> /\ rc.reqs = None

\* C10 as stated: for both strategies, a wait() before any issue() is an
\* error.
C10_WaitBeforeIssueIsError ==
    /\ (rcLast = "wait" /\ rcIssued = 0) => rcRaised # ""
    /\ (agLast = "wait" /\ agIssued = 0) => agRaised # ""

(***************************************************************************)
(* Claims about the rotating ring (under SpecRing).                        *)
(***************************************************************************)
RingAllDone == \A r \in RingRanks : rpc[r] = "done"

\* C8: in the ring where every rank sends its current K/V shard to
\* (rank+1) mod world_size and receives from (rank-1) mod world_size, the
\* rotation never gets stuck, a rank that has completed h hops holds the
\* shard of rank (rank-h) mod world_size, and after world_size-1 hops every
\* rank has observed every rank's shard exactly once.
C8_RingObservesEveryShardOnce ==
    /\ RingAllDone \/ ENABLED RingNext
    /\ \A r \in RingRanks :
          /\ cur[r] = Shard((r - hop[r]) % ringW)
          /\ \A i, j \in 1..Len(seen[r]) : seen[r][i] = seen[r][j] => i = j
          /\ (rpc[r] = "done") =>
                /\ hop[r] = ringW - 1
                /\ Len(seen[r]) = ringW
                /\ \A o \in RingRanks : \E i \in 1..Len(seen[r]) : seen[r][i] = Shard(o)

\* C8 witness: a ring of three ranks of a group that does not start at
\* global rank 0 has finished its two hops.
C8_Witness ==
    /\ ringW = 3 /\ ringBase = 1
    /\ RingAllDone
    /\ \A r \in RingRanks : hop[r] = 2 /\ Len(seen[r]) = 3

(***************************************************************************)
(* Claims about the forward and backward engine (under SpecEng).           *)
(***************************************************************************)
\* C5: within one rank, in forward and in backward, the kernel call of
\* window i never begins before the wait on the gathers issued for window i
\* has completed (i = 0 included): at the call the window's gathers have
\* been waited and none of them is outstanding, and every kernel call read
\* the gathered K and V of its own window.
C5_ComputeAfterGatherWait ==
    \A r \in EngRanks :
        /\ (epc[r] = "kernel") =>
              /\ ei[r] \in waited[r]
              /\ \A h \in Handles(r) : h.inp[2] # ei[r]
        /\ \A n \in 1..Len(reads[r]) :
              /\ reads[r][n].win \in waited[r]
              /\ reads[r][n].k = Gathered("k", reads[r][n].win)
              /\ reads[r][n].v = Gathered("v", reads[r][n].win)

\* C5 witness: in a backward run on two ranks, a rank is about to call the
\* kernel of a window after the first, having computed the first.
C5_Witness ==
    /\ engMode = "backward" /\ engW = 2
    /\ \E r \in EngRanks : epc[r] = "kernel" /\ ei[r] > 0 /\ Len(reads[r]) > 0

\* every outstanding gather writes into the staging buffer, and at a
\* window's kernel call the next window's gathers have been issued
StagingOnly ==
    \A r \in EngRanks :
        /\ \A h \in Handles(r) : h.out[1] # active[r]
        /\ \A b \in {0, 1}, part \in Parts :
              kvbuf[r][b][part].st = "inflight" => b # active[r]
        /\ (epc[r] = "kernel" /\ ei[r] < nheads_k - heads_k_stride) =>
              \E h \in Handles(r) : h.inp[2] = ei[r] + heads_k_stride

\* the buffers change roles only in the swap that follows a wait, with no
\* gather outstanding
RolesChangeBySwap ==
    \A r \in EngRanks :
        (active'[r] # active[r]) =>
            /\ epc[r] = "swap" /\ epc'[r] = "issue"
            /\ ecomm[r].handles = << >>

\* C6: the gather of window i+1 is issued before window i's compute and
\* writes only into the staging buffer; whenever a window's compute reads
\* the active KV buffer no outstanding gather has that buffer as its
\* destination; the buffers change roles only by wait() followed by swap.
C6_DoubleBuffering == []StagingOnly /\ [][RolesChangeBySwap]_vars

\* C6 witness: a forward rank is at its kernel call while the gathers of the
\* next window are outstanding.
C6_Witness ==
    /\ engMode = "forward" /\ engW = 2
    /\ \E r \in EngRanks : epc[r] = "kernel" /\ Handles(r) # {}

\* the ranks whose kernel contributes to global key token g
Contributors(g) == {s \in EngRanks : g \in local_k_slice(s)}

\* the sum of every rank's contribution to KV head h of rank r's token t
ExpectedGrad(r, part, h, t) ==
    SetToBag({<<s, part, h, r * TokensPerRank + t>> :
                 s \in Contributors(r * TokensPerRank + t)})

\* the tensor the window's reduce_scatter_tensor writes on rank r
RsOutput(r, part) ==
    IF heads_k_stride # nheads_k THEN kv_contiguous_buffer[r][part] ELSE dkdv[r][part]

RsOutputIsSum(r, part) ==
    \A t \in LocalTokens, j \in 0..(heads_k_stride - 1) :
        RsOutput(r, part)[<<t, IF heads_k_stride # nheads_k THEN j ELSE ei[r] + j>>]
            = ExpectedGrad(r, part, ei[r] + j, t)

\* C7: after the backward reduce-scatter of a window, each rank's dK and dV
\* of the window are the sum over all ranks of their contributions to the
\* rank's own tokens: every contribution is counted exactly once and lands
\* only on the rank that owns the token; the returned dk and dv hold these
\* sums for every KV head.
C7_ReduceScatterSums ==
    \A r \in EngRanks :
        /\ (epc[r] \in {"rs_v", "copy"}) => RsOutputIsSum(r, "k")
        /\ (epc[r] = "copy") => RsOutputIsSum(r, "v")
        /\ (epc[r] = "done" /\ engMode = "backward") =>
              \A part \in Parts, t \in LocalTokens, h \in 0..(nheads_k - 1) :
                  dkdv[r][part][<<t, h>>] = ExpectedGrad(r, part, h, t)

\* C7 witness: a backward run on two ranks with windows narrower than the KV
\* heads has returned, and some token received contributions of both ranks.
C7_Witness ==
    /\ engMode = "backward" /\ engW = 2 /\ heads_k_stride < nheads_k
    /\ \A r \in EngRanks : epc[r] = "done"
    /\ \E g \in EngTokens : Cardinality(Contributors(g)) = 2

(***************************************************************************)
(* Claims about flatten_varlen_lse / unflatten_varlen_lse (under SpecLse). *)
(***************************************************************************)
LseSeqLen(b) == At(lseCu, b + 1) - At(lseCu, b)

\* the positions (sequence, head, row) inside the sequences' true lengths
ValidRegion ==
    {idx \in (0..(Len(lseCu) - 2)) \X (0..(lseIn.shape[2] - 1)) \X (0..(lseMax - 1)) :
        idx[3] < LseSeqLen(idx[1])}

\* the positions of the result at or beyond a sequence's true length
PaddedRegion ==
    {idx \in (0..(Len(lseCu) - 2)) \X (0..(lseIn.shape[2] - 1)) \X (0..(lseMax - 1)) :
        idx[3] >= LseSeqLen(idx[1]) /\ HasIndex(lseOut, idx)}

RoundTripHolds ==
    \A idx \in ValidRegion :
        HasIndex(lseOut, idx) /\ Elem(lseOut, idx) = Elem(lseIn, idx)

\* C11: unflatten_varlen_lse(flatten_varlen_lse(lse, cu_seqlens), cu_seqlens,
\* max_seqlen) returns, and equals the original lse at every (sequence,
\* head, row) position with row below the sequence's true length.
C11_RoundTrip ==
    (lseDirect /\ lsePc \in {"done", "raised"}) => (lsePc = "done" /\ RoundTripHolds)

\* The round trip through the token-major layout: unflatten applied to
\* flatten's result transposed and unsqueezed as update_out_and_lse lays a
\* block's lse out returns the original inside the valid region; the only
\* call that raises is torch.cat on a batch of no sequences.
RoundTripTokenMajor ==
    /\ (lsePc = "done" /\ ~lseDirect) => RoundTripHolds
    /\ (lsePc = "raised" /\ ~lseDirect) => (Len(lseCu) = 1 /\ lseImpl = "torch")

\* C12: unflatten_varlen_lse zero-fills its padded output: every position
\* (sequence, head, row) with row at or beyond the sequence's true length and
\* below max_seqlen holds 0 in the result.
C12_ZeroFill ==
    (lsePc = "done" /\ ~lseDirect) => \A idx \in PaddedRegion : Elem(lseOut, idx) = 0

(***************************************************************************)
(* Claims about update_out_and_lse (under SpecMerge).                      *)
(***************************************************************************)
\* log-sum-exp of the blocks merged into a row
ExpectedLse(r) ==
    IF merged[r].mass > 0 THEN Log(<<merged[r].mass, 1>>) ELSE NegInf

\* the blocks' outputs weighted by their softmax mass
ExpectedOut(r) ==
    IF merged[r].mass > 0 THEN Fin(RNorm(merged[r].mo, merged[r].mass))
    ELSE Fin(<<0, 1>>)

RowMergedExactly(r) ==
    /\ Elem(mLse, <<r, 0, 0>>) = ExpectedLse(r)
    /\ Elem(mOut, <<r, 0, 0>>) = ExpectedOut(r)

\* C13 as stated: after any sequence of update_out_and_lse calls the
\* accumulator's lse is the log-sum-exp of the merged blocks and its out is
\* their combination weighted by softmax mass.
C13_AsStated ==
    mOut # NoTensor => \A r \in MergeRows : RowMergedExactly(r)

\* C13: the same, for the rows into which only blocks with a finite lse
\* were merged.
C13_MergeExact ==
    mOut # NoTensor => \A r \in MergeRows : merged[r].finite => RowMergedExactly(r)

C13_Witness ==
    /\ mCalls = 3 /\ mSlice = <<1, 2>>
    /\ merged[0].mass = 3 /\ merged[1].mass = 5
    /\ \A r \in MergeRows : merged[r].finite
    /\ Elem(mOut, <<0, 0, 0>>) = Fin(<<1, 3>>)
    /\ Elem(mOut, <<1, 0, 0>>) = Fin(<<2, 5>>)
    /\ Elem(mLse, <<1, 0, 0>>) = Log(<<5, 1>>)

\* C14: a call with no accumulator (out is None) seeds the accumulator from
\* the block when no slice is given, and raises without producing an
\* accumulator when a slice is given.
C14_FirstCall ==
    (mCalls > 0 /\ mWasNone) =>
        IF mSlice = NoSlice
        THEN /\ mRaised = ""
             /\ mOut = mBlockOut
             /\ mLse.shape = <<2, 1, 1>>
             /\ \A r \in MergeRows : Elem(mLse, <<r, 0, 0>>) = Elem(mBlockLse, <<0, r>>)
        ELSE /\ mRaised # ""
             /\ mOut = NoTensor /\ mLse = NoTensor

C14_Witness ==
    /\ mCalls = 2 /\ mWasNone /\ mSlice = NoSlice
    /\ mRaised = "" /\ mOut = mBlockOut /\ mOut # NoTensor

(***************************************************************************)
(* More claims about the forward and backward engine (under SpecEng).      *)
(***************************************************************************)
PreconditionFails ==
    \/ ~divisible(nheads_k, heads_k_stride)
    \/ alibi_slopes # "None"

\* C15: when heads_k_stride does not divide the KV head count, or
\* alibi_slopes is supplied, the call fails before any all-gather or
\* reduce-scatter is issued: the rank has called no collective, holds no
\* handle, and is either still before the check or has raised.
C15_EagerValidation ==
    PreconditionFails =>
        \A r \in EngRanks :
            /\ colls[r] = << >>
            /\ ecomm[r].handles = << >>
            /\ epc[r] \in {"call", "start", "raised"}
            /\ (alibi_slopes # "None" => epc[r] \in {"call", "raised"})

C15_Witness ==
    /\ engW = 2 /\ alibi_slopes # "None" /\ divisible(nheads_k, heads_k_stride)
    /\ \A r \in EngRanks : epc[r] = "raised" /\ colls[r] = << >>

(***************************************************************************)
(* More claims about llama3_flash_attn_prepare_cu_seqlens (under SpecPrep).*)
(***************************************************************************)
\* the start of the global sequence that holds global position p
TrueStart(p) ==
    SetMax({cu_seqlens[m] : m \in {n \in 1..Len(cu_seqlens) : cu_seqlens[n] <= p}})

NonDecreasing(s) == \A j \in 1..(Len(s) - 1) : s[j] <= s[j + 1]

\* local sequence j (1-based here): its query and key segments, global
QueryStart(j) == rank * LengthPerRank + ret.cu_seqlens_q[j]

QueryEnd(j) == rank * LengthPerRank + ret.cu_seqlens_q[j + 1]

KeyStart(j) == ret.slice_left + ret.cu_seqlens_k[j]

KeyEnd(j) == ret.slice_left + ret.cu_seqlens_k[j + 1]

\* C16: when causal, for every local sequence j the key segment of
\* cu_seqlens_k starts at the true global start of the sequence and ends at
\* the global token where the query segment of cu_seqlens_q ends (so the
\* key is at least as long as the query); cu_seqlens_k starts at 0, is
\* non-decreasing and has as many entries as cu_seqlens_q.
C16_CausalKeySegments ==
    (Returned /\ causal) =>
        /\ Len(ret.cu_seqlens_k) = Len(ret.cu_seqlens_q)
        /\ ret.cu_seqlens_k[1] = 0
        /\ NonDecreasing(ret.cu_seqlens_k)
        /\ \A j \in 1..(Len(ret.cu_seqlens_q) - 1) :
              /\ KeyStart(j) = TrueStart(QueryStart(j))
              /\ KeyEnd(j) = QueryEnd(j)
              /\ KeyEnd(j) - KeyStart(j) >= QueryEnd(j) - QueryStart(j)

\* C16 witness: a causal call of a later rank with two local sequences, the
\* first begun on an earlier rank and the last going on beyond the rank.
C16_Witness ==
    /\ Returned /\ causal /\ rank > 0
    /\ Len(ret.cu_seqlens_q) = 3
    /\ KeyStart(1) < QueryStart(1)
    /\ Last(cu_seqlens) > (rank + 1) * LengthPerRank
    /\ \E m \in 1..Len(cu_seqlens) : cu_seqlens[m] > (rank + 1) * LengthPerRank
                                       /\ TrueStart(QueryStart(2)) < cu_seqlens[m]
    /\ ~(\E m \in 1..Len(cu_seqlens) : cu_seqlens[m] = (rank + 1) * LengthPerRank)

\* the gathers a rank has issued, as <<part, window>>, in order
GathersIssued(r) ==
    LET g == SelectSeq(colls[r], LAMBDA c : c[1] = "all_gather")
    IN  [n \in 1..Len(g) |-> <<g[n][2], g[n][3]>>]

Count(seq, x) == Cardinality({n \in 1..Len(seq) : seq[n] = x})

\* the loop is in its last window, past the place where it issues gathers
InLastWindow(r) ==
    /\ epc[r] \in {"kernel", "rs_k", "rs_v", "copy"}
    /\ ei[r] + heads_k_stride >= nheads_k

\* C17: in both engines every all-gather handle issued is waited exactly
\* once (never twice, and once by the time the function returns), the last
\* window issues no further gather, and no handle is outstanding when the
\* function returns.
C17_HandlesWaitedOnce ==
    \A r \in EngRanks :
        /\ \A n \in 1..Len(GathersIssued(r)) :
              /\ Count(GathersIssued(r), GathersIssued(r)[n]) = 1
              /\ Count(hwaits[r], GathersIssued(r)[n]) <= 1
              /\ GathersIssued(r)[n][2] < nheads_k
              /\ epc[r] = "done" => Count(hwaits[r], GathersIssued(r)[n]) = 1
        /\ \A n \in 1..Len(hwaits[r]) : Count(GathersIssued(r), hwaits[r][n]) = 1
        /\ InLastWindow(r) => ecomm[r].handles = << >>
        /\ epc[r] = "done" => ecomm[r].handles = << >>

C17_Witness ==
    /\ engW = 2 /\ engMode = "backward" /\ nheads_k = 2 /\ heads_k_stride = 1
    /\ \A r \in EngRanks : epc[r] = "done" /\ Len(hwaits[r]) = 4
                             /\ Len(GathersIssued(r)) = 4

\* two ranks have called the same collectives in the same order so far
SameOrder(r, s) ==
    \A n \in 1..Min2(Len(colls[r]), Len(colls[s])) : colls[r][n] = colls[s][n]

\* the collectives of one window, in the order the engine calls them when
\* it runs the windows one after the other without overlap
WindowGathers(win) == << <<"all_gather", "k", win>>, <<"all_gather", "v", win>> >>

WindowScatters(win) == << <<"reduce_scatter", "k", win>>, <<"reduce_scatter", "v", win>> >>

\* the collectives of a kind that a rank has called, in order
CollsOfKind(r, kind) == SelectSeq(colls[r], LAMBDA c : c[1] = kind)

RECURSIVE AllWindows(_, _)
AllWindows(win, kind) ==
    IF win >= nheads_k THEN << >>
    ELSE (IF kind = "all_gather" THEN WindowGathers(win) ELSE WindowScatters(win))
         \o AllWindows(win + heads_k_stride, kind)

AllReturned == \A r \in EngRanks : epc[r] = "done"

\* C18: with the same heads_k_stride and head counts on every rank, the
\* ranks call the same collectives in the same order (per window the
\* gathers of K and V, in backward also the reduce-scatters of dK and dV),
\* and when the arguments pass the checks every rank eventually returns.
C18_SameCollectivesNoDeadlock ==
    /\ [](\A r \in 0..(MaxEngWorld - 1), s \in 0..(MaxEngWorld - 1) :
             (r \in EngRanks /\ s \in EngRanks) => SameOrder(r, s))
    /\ []((AllReturned /\ engW > 0) =>
             \A r \in 0..(MaxEngWorld - 1) : r \in EngRanks =>
                /\ CollsOfKind(r, "all_gather") = AllWindows(0, "all_gather")
                /\ CollsOfKind(r, "reduce_scatter") =
                      (IF engMode = "backward" THEN AllWindows(0, "reduce_scatter")
                       ELSE << >>))
    /\ (~PreconditionFails) => <>[]AllReturned

C18_Witness ==
    /\ engW = 2 /\ engMode = "backward" /\ nheads_k = 2 /\ heads_k_stride = 1
    /\ AllReturned
    /\ colls[0] = colls[1] /\ Len(colls[0]) = 8

\* the window buffer of a rank holds zeros everywhere
WindowBufferZero(r) ==
    \A part \in Parts : \A c \in DOMAIN dkv_buffer[r][part] :
        dkv_buffer[r][part][c] = ZeroGrad

\* the window buffer of a rank holds what the kernel wrote for the current
\* window inside local_k_slice, and zeros elsewhere
WindowBufferIsWindow(r) ==
    \A part \in Parts : \A c \in DOMAIN dkv_buffer[r][part] :
        dkv_buffer[r][part][c] =
            IF c[1] \in local_k_slice(r)
            THEN Contribution(r, part, ei[r] + c[2], c[1])
            ELSE ZeroGrad

\* C19: in the backward engine the window gradient buffer is zero from the
\* start of every window until the kernel writes into it, and what a rank
\* gives to the reduce-scatters of window i is the kernel's contributions
\* of window i inside local_k_slice and zeros elsewhere: nothing written
\* in an earlier window is in it.
C19_WindowBufferFresh ==
    \A r \in EngRanks :
        /\ (engMode = "backward" /\ epc[r] \in {"wait", "swap", "issue", "kernel"})
              => WindowBufferZero(r)
        /\ (epc[r] \in {"rs_k", "rs_v"}) => WindowBufferIsWindow(r)

C19_Witness ==
    /\ engMode = "backward" /\ engW = 2 /\ heads_k_stride < nheads_k
    /\ \E r \in EngRanks :
          /\ epc[r] = "rs_k" /\ ei[r] > 0
          /\ local_k_slice(r) # {} /\ local_k_slice(r) # EngTokens
          /\ WindowBufferIsWindow(r)

\* the window that holds a KV head: the i of range(0, nheads_k, heads_k_stride)
\* with i <= h < i + heads_k_stride
WindowOf(h) == (h \div heads_k_stride) * heads_k_stride

\* how often a head of the returned dk (dv) has been written, by any window
TimesWritten(r, part, h) ==
    LET ws == {w \in BagToSet(dkdv_writes[r]) : w[1] = part /\ w[2] = h}
    IN  IF ws = {} THEN 0
        ELSE IF Cardinality(ws) = 1
             THEN CopiesIn(CHOOSE w \in ws : TRUE, dkdv_writes[r])
             ELSE 2

\* C20: in the backward engine, for every stride that divides the KV head
\* count, a head of the returned dk and dv is written only by the window
\* that contains it, at most once, and exactly once by the time the rank
\* returns; a written head holds the reduce-scatter result of its window
\* (the sum over the ranks of their contributions to that head of the
\* rank's tokens), an unwritten one what torch.empty left.  Narrower
\* windows go through kv_contiguous_buffer, which holds the reduce-scatter
\* result when it is copied; a window of all KV heads never touches it.
C20_EveryHeadWrittenOnce ==
    \A r \in EngRanks :
        /\ \A w \in BagToSet(dkdv_writes[r]) :
              /\ w[2] \in 0..(nheads_k - 1)
              /\ w[3] = WindowOf(w[2])
        /\ \A part \in Parts, h \in 0..(nheads_k - 1) :
              /\ TimesWritten(r, part, h) <= 1
              /\ (epc[r] = "done" /\ engMode = "backward") => TimesWritten(r, part, h) = 1
              /\ \A t \in LocalTokens :
                    dkdv[r][part][<<t, h>>] =
                        IF TimesWritten(r, part, h) = 1
                        THEN ExpectedGrad(r, part, h, t)
                        ELSE GarbageGrad
        /\ (heads_k_stride = nheads_k) =>
              \A part \in Parts : \A c \in DOMAIN kv_contiguous_buffer[r][part] :
                  kv_contiguous_buffer[r][part][c] = GarbageGrad
        /\ (heads_k_stride # nheads_k /\ epc[r] = "copy") =>
              \A part \in Parts, t \in LocalTokens, j \in 0..(heads_k_stride - 1) :
                  kv_contiguous_buffer[r][part][<<t, j>>]
                      = ExpectedGrad(r, part, ei[r] + j, t)

C20_Witness ==
    /\ engMode = "backward" /\ engW = 2 /\ nheads_k = 2 /\ heads_k_stride = 1
    /\ \A r \in EngRanks :
          /\ epc[r] = "done"
          /\ \A part \in Parts, h \in 0..(nheads_k - 1) : TimesWritten(r, part, h) = 1
          /\ dkdv[r]["k"][<<0, 1>>] = ExpectedGrad(r, "k", 1, 0)

\* the KV head of a query head under grouped-query attention
GroupedKVHead(h) == h \div (nheads \div nheads_k)

\* the query-head ranges of the kernel calls made so far start at head 0
\* and each begins where the one before ended, none of them empty
RangesContiguous(r) ==
    \A n \in 1..Len(reads[r]) :
        /\ reads[r][n].q_lo = (IF n = 1 THEN 0 ELSE reads[r][n - 1].q_hi)
        /\ reads[r][n].q_lo < reads[r][n].q_hi
        /\ reads[r][n].q_hi <= nheads

\* C21: in the forward engine the query-head ranges of the windows, in
\* the order of the windows, partition the query heads 0..nheads-1 with no
\* gap or overlap; every query head is computed against the gathered K and
\* V of the window that contains its grouped-query KV head; and the
\* returned out (and lse) has the query heads in their original order.
C21_QueryHeadsPartitioned ==
    engMode = "forward" =>
        \A r \in EngRanks :
            /\ RangesContiguous(r)
            /\ \A n \in 1..Len(reads[r]) :
                  \A h \in reads[r][n].q_lo..(reads[r][n].q_hi - 1) :
                      WindowOf(GroupedKVHead(h)) = reads[r][n].win
            /\ epc[r] = "done" =>
                  /\ reads[r][Len(reads[r])].q_hi = nheads
                  /\ eng_out[r].shape = <<1, nheads, 1>>
                  /\ eng_lse[r].shape[lse_dims - 1] = nheads
                  /\ \A h \in 0..(nheads - 1) :
                        LET o == Elem(eng_out[r], <<0, h, 0>>)
                            l == Elem(eng_lse[r],
                                      IF lse_dims = 3 THEN <<0, h, 0>> ELSE <<h, 0>>)
                        IN  /\ o.what = "out" /\ l.what = "lse"
                            /\ o.q = h /\ l.q = h
                            /\ o.kv = GroupedKVHead(h) /\ l.kv = o.kv
                            /\ o.k = Gathered("k", WindowOf(o.kv))
                            /\ o.v = Gathered("v", WindowOf(o.kv))
                            /\ l.k = o.k /\ l.v = o.v

C21_Witness ==
    /\ engMode = "forward" /\ engW = 2 /\ nheads_k = 2 /\ heads_k_stride = 1
    /\ nheads = 4
    /\ \A r \in EngRanks :
          /\ epc[r] = "done" /\ Len(reads[r]) = 2
          /\ eng_out[r].shape = <<1, 4, 1>>
          /\ Elem(eng_out[r], <<0, 3, 0>>).q = 3
          /\ Elem(eng_out[r], <<0, 3, 0>>).kv = 1

\* C22: for every window, the out and lse that the backward engine passes
\* to the backward kernel, the saved forward out and lse restricted to the
\* window's query-head slice, are the out and lse that the forward engine
\* recorded for that window: forward records for its n-th window the
\* kernel's result on the gathered K and V of that window and returns the
\* tensors that backward is given, and backward's n-th kernel call gets
\* exactly the n-th recorded pair.
C22_BackwardSlicesAreForwardWindows ==
    \A r \in EngRanks :
        /\ engMode = "forward" =>
              /\ \A n \in 1..Len(out_list[r]) : out_list[r][n] = ForwardWindows[n]
              /\ epc[r] = "done" =>
                    eng_out[r] = saved_out(r) /\ eng_lse[r] = saved_lse(r)
        /\ engMode = "backward" =>
              \A n \in 1..Len(reads[r]) :
                  /\ reads[r][n].win = ForwardWindows[n].win
                  /\ reads[r][n].out = WindowOut(r, ForwardWindows[n])
                  /\ reads[r][n].softmax_lse = WindowLse(r, ForwardWindows[n])

C22_Witness ==
    /\ engMode = "backward" /\ engW = 2 /\ nheads_k = 2 /\ heads_k_stride = 1
    /\ nheads = 4 /\ lse_dims = 2
    /\ \E r \in EngRanks :
          /\ Len(reads[r]) = 2
          /\ reads[r][2].out = WindowOut(r, ForwardWindows[2])
          /\ Elem(reads[r][2].softmax_lse, <<1, 0>>).q = 3

(***************************************************************************)
(* More claims about RingComm (under SpecApi).                             *)
(***************************************************************************)
\* the operations that send_recv has enqueued so far
Enqueued ==
    UNION {{P2POp("isend", SendTensor(n), rc.send_rank),
            P2POp("irecv", RecvTensor(n), rc.recv_rank)} : n \in 0..(rcIssued - 1)}

InQueue(op) == \E n \in 1..Len(rc.ops) : rc.ops[n] = op

\* the committed batches that hold an operation
BatchesOf(op) ==
    {b \in 1..Len(rcBatches) : \E n \in 1..Len(rcBatches[b]) : rcBatches[b][n] = op}

\* C23 as stated: under any sequence of send_recv, send_recv_kv, commit
\* and wait calls, every operation enqueued by send_recv is submitted in
\* exactly one committed batch before it is removed from the queue; wait()
\* never discards an operation that was enqueued but not committed.
C23_SubmittedExactlyOnce ==
    \A op \in Enqueued :
        /\ Cardinality(BatchesOf(op)) <= 1
        /\ ~InQueue(op) => Cardinality(BatchesOf(op)) = 1

\* no operation is ever submitted in two batches
SubmittedAtMostOnce ==
    \A op \in Enqueued : Cardinality(BatchesOf(op)) <= 1

====
